---- MODULE Spec2Model ----
(***************************************************************************)
(* Model of the cycligent.js application loader: the class / interface /   *)
(* definition registries with their deferred queues, the asynchronous      *)
(* script importer with its pending counter, the readiness gate and the    *)
(* finalizer that starts main().                                           *)
(*                                                                         *)
(* Every callback the browser dispatches (script load event, timeout       *)
(* timer, DOM ready, page load) and every public entry point called by     *)
(* user code (cycligent.import, cycligent.class, cycligent.interface,      *)
(* cycligent.define, appLoad.notify, appLoad.notifyClear) is one atomic    *)
(* action: JavaScript is single threaded and a callback runs to completion *)
(* (or to its first uncaught exception) before the next one starts.        *)
(*                                                                         *)
(* A handler is written as a function from a state record s to a state     *)
(* record.  The field exc of the record is TRUE while a JavaScript         *)
(* exception is propagating: every operator passes such a record through   *)
(* unchanged, which is how the statements after a throw are skipped.       *)
(***************************************************************************)
EXTENDS Integers, Sequences, FiniteSets, TLC

VARIABLES
    cfg,                    \* cycligent.config / cycligent.test as read by the loader,
                            \* with the call budget of the run
    phase,                  \* "config" while config.js is loading, "libs" while the
                            \* boot libraries are loading, "halted" when the config
                            \* callback returned without booting, "boot" before
                            \* cycligent.appLoad.load() ran, "run" after
    tree,                   \* the namespace tree hanging off window, by dotted path
    classes,                \* cycligent.classes
    interfaces,             \* cycligent.interfaces
    classesToProcess,       \* cycligent.classesToProcess
    interfacesToProcess,    \* cycligent.interfacesToProcess
    definitionsToProcess,   \* cycligent.definitionsToProcess
    priorityDefinitions,    \* cycligent.priorityDefinitions
    scriptsPending,         \* cycligent.imports.scriptsPending
    scriptsCount,           \* cycligent.imports.scriptsCount
    scripts,                \* cycligent.imports.scripts and the Script objects in it
    scriptsReady,           \* appLoad closure variable
    domReady,               \* appLoad closure variable
    pageReady,              \* appLoad closure variable
    appLoadFinished,        \* appLoad closure variable
    notifyFunctions,        \* appLoad closure variable
    scaffoldingReady,       \* cycligent.test.scaffoldingReady
    domEvent,               \* the DOM-ready listener: "none", "armed" or "fired"
    pageEvent,              \* window.onload: "none", "armed" or "fired"
    errors,                 \* what has been reported through console.error
    mainCalls,              \* history: how many times main() has been invoked
    settled,                \* history: how many times appLoad.allScriptsLoaded ran
    notified,               \* history: per observer, how many times it was called
    mainGate,               \* history: every main() so far was invoked with all three
                            \* readiness flags true
    calls,                  \* history: number of API calls user code has made so far
    registered,             \* history: the declarations user code has registered
    executed,               \* history: the priority definitions that have been
                            \* executed by cycligent.define.execute
    libIndex,               \* _loader.loadLibs: how many boot libraries were started
    regCount,               \* history: how often each tracked definition was
                            \* passed to cycligent.define
    runCount,               \* history: how often the payload of each tracked
                            \* definition was run (a factory) or assigned
    timing,                 \* the closure of cycligent.timing: events, indentCurrent,
                            \* idle, idleIndent; and history: how many calls were
                            \* made into it, which call was the last, how many
                            \* asynchronous processes were begun and not ended, how
                            \* many "Idle" events were recorded
    console,                \* the closure of cycligent.console: messages, countMap;
                            \* and history: the type user code logs with in this
                            \* run, how many calls it made, the messages stored
                            \* since the last clear, in the order they were stored
    holder,                 \* which definition's object is the value at a path
                            \* (Null: none, or an object made by a factory)
    lastOp                  \* history: the callback that produced this state: the
                            \* API call user code made (op, arg) or "event" for a
                            \* callback of the browser; whether it ended in an
                            \* uncaught exception; whether main() threw in it; the
                            \* observers it called, in order; the priority
                            \* definitions it executed, in order; whether its
                            \* readyCheck found all three flags true

\* the variables of the loader
loaderVars == <<cfg, phase, tree, classes, interfaces, classesToProcess,
                interfacesToProcess, definitionsToProcess, priorityDefinitions,
                scriptsPending, scriptsCount, scripts, scriptsReady, domReady,
                pageReady, appLoadFinished, notifyFunctions, scaffoldingReady,
                domEvent, pageEvent, errors, mainCalls, settled, notified, mainGate,
                calls, registered, executed, libIndex, lastOp, regCount, runCount,
                holder>>

vars == <<cfg, phase, tree, classes, interfaces, classesToProcess,
          interfacesToProcess, definitionsToProcess, priorityDefinitions,
          scriptsPending, scriptsCount, scripts, scriptsReady, domReady,
          pageReady, appLoadFinished, notifyFunctions, scaffoldingReady,
          domEvent, pageEvent, errors, mainCalls, settled, notified, mainGate, calls,
          registered, executed, libIndex, lastOp, regCount, runCount, holder,
          timing, console>>

(***************************************************************************)
(* Bounds of the model.                                                    *)
(***************************************************************************)
\* how many calls user code makes into the API (cycligent.import, class,
\* interface, define, appLoad.notify, appLoad.notifyClear) over a run; the
\* import of the startup script by appLoad.load is not counted
MaxCalls == 3
\* how many script timeout timers expire over a run
MaxTimeouts == 1
\* the same budget of API calls in the runs that look at the diagnostics of
\* _executeMain, where three classes must be queued and a fourth call made
MaxDiagCalls == 4
\* how many calls of a definition factory may be nested before the engine
\* gives up with "Maximum call stack size exceeded"
MaxDepth == 3
\* how many calls user code makes into cycligent.timing over a run
MaxTimingCalls == 6
\* how many messages user code logs through cycligent.console over a run
MaxMessages == 102

(***************************************************************************)
(* Universe: script ids, observers, dotted names and declarations.         *)
(* A dotted name "a.b" is kept as the sequence of its segments <<a, b>>,   *)
(* which is what name.split(".") makes of it.  The empty sequence stands   *)
(* for undefined (an absent name / extends argument).                      *)
(***************************************************************************)
StartupScript == "main"
ScriptIds == {StartupScript, "s1", "s2"}
Observers == {"f", "g"}

Undefined == <<>>
Null == [kind |-> "null"]

nI  == <<"I">>
nJ  == <<"ns", "J">>
nB  == <<"B">>
nC  == <<"C">>
nNs == <<"ns">>
nE  == <<"E">>
nK  == <<"ns", "K">>
nSub  == <<"ns", "sub">>
nSubX == <<"ns", "sub", "x">>
nL  == <<"L">>
nM  == <<"M">>
nP  == <<"P">>
nQ  == <<"Q">>
nN  == <<"ns", "N">>
nG  == <<"G">>
nF  == <<"ns", "F">>
nH  == <<"H">>
nBx == <<"B", "x">>
nSubK == <<"ns", "sub", "K">>

Paths == {nI, nJ, nB, nC, nNs, nE, nK, nSub, nSubX, nL, nM, nP, nQ, nN, nG, nF, nH, nBx, nSubK}

\* segments that do not begin with an uppercase letter
LowerSegments == {"ns", "sub", "x"}

InterfaceI == [kind |-> "interface", name |-> nI, extends |-> Undefined]
InterfaceJ == [kind |-> "interface", name |-> nJ, extends |-> Undefined]
ClassB == [kind |-> "class", name |-> nB, extends |-> Undefined, implements |-> <<>>]
ClassC == [kind |-> "class", name |-> nC, extends |-> nB, implements |-> <<nI>>]
DefineNs == [kind |-> "define", name |-> nNs, definition |-> "none", priority |-> 0]

InterfaceDecls == {InterfaceI, InterfaceJ}
ClassDecls == {ClassB, ClassC}
DefineDecls == {DefineNs}

\* the richer catalogue of the registry specification: a class chain
\* B <- C <- E, a class inside the namespace ns, and definitions with an
\* object payload one, two and three segments deep
ClassE == [kind |-> "class", name |-> nE, extends |-> nC, implements |-> <<>>]
ClassK == [kind |-> "class", name |-> nK, extends |-> Undefined, implements |-> <<>>]
ClassM == [kind |-> "class", name |-> nM, extends |-> nK, implements |-> <<>>]
DefineNsObject == [kind |-> "define", name |-> nNs, definition |-> "object", priority |-> 0]
DefineSub == [kind |-> "define", name |-> nSub, definition |-> "object", priority |-> 0]
DefineSubX == [kind |-> "define", name |-> nSubX, definition |-> "object", priority |-> 0]

InterfaceL == [kind |-> "interface", name |-> nL, extends |-> nI]

RegInterfaceDecls == {InterfaceI, InterfaceJ, InterfaceL}
RegClassDecls == {ClassB, ClassC, ClassE, ClassK, ClassM}
RegDefineDecls == {DefineNs, DefineNsObject, DefineSub, DefineSubX}
RegScriptIds == {"s1"}

\* the catalogue of the priority specification: definitions with priorities
\* 2, 1 and 3 on the paths ns, ns.sub and ns.sub.x, next to the namespace ns,
\* a class and an interface inside it
PriorityNs == [kind |-> "define", name |-> nNs, definition |-> "object", priority |-> 2]
PrioritySub == [kind |-> "define", name |-> nSub, definition |-> "object", priority |-> 1]
PrioritySubX == [kind |-> "define", name |-> nSubX, definition |-> "function", priority |-> 3]

PrioDefineDecls == {DefineNs, PriorityNs, PrioritySub, PrioritySubX}
PrioClassDecls == {ClassK}
PrioInterfaceDecls == {InterfaceJ}

\* the catalogue of the dependency specification: two classes that extend
\* each other, two classes inside the namespace ns, and a class whose base
\* class B is in no script
ClassP == [kind |-> "class", name |-> nP, extends |-> nQ, implements |-> <<>>]
ClassQ == [kind |-> "class", name |-> nQ, extends |-> nP, implements |-> <<>>]
ClassN == [kind |-> "class", name |-> nN, extends |-> Undefined, implements |-> <<>>]

DepClassDecls == {ClassP, ClassQ, ClassK, ClassN, ClassC}
DepInterfaceDecls == {InterfaceI}
DefineF == [kind |-> "define", name |-> nF, definition |-> "object", priority |-> 0]
DepDefineDecls == {DefineNs, DefineSub, DefineF}

\* the catalogue of the factory specification: definitions whose factory
\* calls cycligent.define("G"), one inside the namespace ns and one at the
\* top level
FactoryF == [kind |-> "define", name |-> nF, definition |-> "functionDefines", priority |-> 0]
FactoryH == [kind |-> "define", name |-> nH, definition |-> "functionDefines", priority |-> 0]

\* a definition inside ns whose factory does nothing and returns nothing
FactorySub == [kind |-> "define", name |-> nSub, definition |-> "function", priority |-> 0]

FacDefineDecls == {DefineNs, DefineSub, FactoryF, FactoryH, FactorySub}

\* the catalogue of the naming specification: class names whose first and
\* last segments are upper/upper (B), lower/upper (ns.K), upper/lower (B.x)
\* and lower/lower (ns.sub)
ClassBx == [kind |-> "class", name |-> nBx, extends |-> Undefined, implements |-> <<>>]
ClassSub == [kind |-> "class", name |-> nSub, extends |-> Undefined, implements |-> <<>>]

NameClassDecls == {ClassB, ClassK, ClassBx, ClassSub}

\* a definition inside ns whose factory returns a new object at every call
FactoryValueSub ==
    [kind |-> "define", name |-> nSub, definition |-> "functionValue", priority |-> 0]

\* the catalogue of the value specification: the namespace ns declared
\* without a payload, ns.sub made by a factory, and an object and a class
\* stored beneath ns.sub
ClassSubK == [kind |-> "class", name |-> nSubK, extends |-> Undefined, implements |-> <<>>]

ValDefineDecls == {DefineNs, FactoryValueSub, DefineSubX}
ValClassDecls == {ClassSubK, ClassK}

\* the definitions whose registrations and executions are counted: the ones
\* with a payload
Tracked ==
    {FactoryF, FactoryH, FactorySub, FactoryValueSub, PriorityNs, PrioritySub,
     PrioritySubX, DefineNsObject, DefineSub, DefineSubX, DefineF}

\* `this` inside cycligent.interfaceProcessDeferred(): the cycligent object
\* itself, which has neither a name nor an extends property
CycligentThis == [kind |-> "cycligent", name |-> Undefined, extends |-> Undefined]

\* config.debug.on and config.debug.interfaces.check as src/config.js sets them
DebugInterfacesCheck == TRUE

(***************************************************************************)
(* Small helpers.                                                          *)
(***************************************************************************)
Min(S) == CHOOSE x \in S : \A y \in S : x <= y

Prefix(p, i) == SubSeq(p, 1, i)

IsStrictPrefix(p, q) == Len(p) < Len(q) /\ SubSeq(q, 1, Len(p)) = p

Throw(s) == [s EXCEPT !.exc = TRUE]

ConsoleError(s, e) == [s EXCEPT !.errors = @ \cup {e}]

\* history: cycligent.define is called with the arguments args
Registers(s, args) ==
    IF args \in Tracked THEN [s EXCEPT !.regCount[args] = @ + 1] ELSE s

\* history: the payload of the definition args is run or assigned
Runs(s, args) ==
    IF args \in Tracked THEN [s EXCEPT !.runCount[args] = @ + 1] ELSE s

\* history: a do-while round of a deferred pass begins
NewRound(s) == [s EXCEPT !.roundCount = @ + 1, !.round = s.roundCount + 1]

\* history: the current round takes the entry args out of a deferred queue
Note(s, args) ==
    [s EXCEPT !.resolved = Append(@, [args |-> args, round |-> s.round])]

\* cycligent.config.loader.libs of config.js has three entries
NumLibs == 3

\* cycligent.loaderValid without the test of loader.roots
loaderValidNoRoots(s) ==
    IF cfg.loader = "noLoader"
    THEN [s |-> ConsoleError(s, <<"loader section missing">>), ok |-> FALSE]
    ELSE [s |-> s, ok |-> TRUE]

\* cycligent.loaderValid: [s, ok]
loaderValid(s) ==
    IF cfg.loader = "noLoader"
    THEN [s |-> ConsoleError(s, <<"loader section missing">>), ok |-> FALSE]
    ELSE IF cfg.loader = "noRoots"
    THEN [s |-> ConsoleError(s, <<"roots section missing">>), ok |-> FALSE]
    ELSE [s |-> s, ok |-> TRUE]

\* cycligent.debugValid fills in defaults and always returns true
debugValid(s) == [s |-> s, ok |-> TRUE]

(***************************************************************************)
(* cycligent.definitionGet / cycligent.definitionSet.                      *)
(***************************************************************************)
\* the walk currentObj = currentObj[split[i]] reads a property of undefined
\* when a segment before the i-th is absent
WalkThrows(t, name, upto) == \E i \in 1..(upto - 1) : t[Prefix(name, i)] = "undef"

\* [exc, value]: the value found at a dotted name, "undef" when absent
definitionGet(t, name) ==
    IF name = Undefined THEN [exc |-> FALSE, value |-> "undef"]
    ELSE IF WalkThrows(t, name, Len(name)) THEN [exc |-> TRUE, value |-> "undef"]
    ELSE [exc |-> FALSE, value |-> t[name]]

\* assigning a new object at a path drops whatever hung below the old one
definitionSet(s, name, value) ==
    IF s.exc THEN s
    ELSE IF WalkThrows(s.tree, name, Len(name)) THEN Throw(s)
    ELSE [s EXCEPT !.tree = [p \in Paths |->
                IF p = name THEN value
                ELSE IF IsStrictPrefix(name, p) THEN "undef"
                ELSE s.tree[p]]]

\* the loop shared by classMissing, interfaceMissing and definitionMissing:
\* the first ancestor namespace of name that is absent, as "window.a.b"
AncestorMissing(t, name) ==
    LET bad == {i \in 1..(Len(name) - 1) : t[Prefix(name, i)] = "undef"}
    IN  IF bad = {} THEN Undefined ELSE <<"window">> \o Prefix(name, Min(bad))

(***************************************************************************)
(* Classes.                                                                *)
(***************************************************************************)
\* [exc, missing]: missing is Undefined for the empty string ""
classMissing(s, args) ==
    IF args.name = Undefined THEN [exc |-> TRUE, missing |-> Undefined]
    ELSE LET anc == AncestorMissing(s.tree, args.name)
             unmet == {i \in 1..Len(args.implements) :
                          s.interfaces[args.implements[i]] # "true"}
         IN  IF anc # Undefined THEN [exc |-> FALSE, missing |-> anc]
             ELSE IF args.extends # Undefined /\ s.classes[args.extends] # "true"
                  THEN [exc |-> FALSE, missing |-> args.extends]
             ELSE IF unmet # {}
                  THEN [exc |-> FALSE, missing |-> args.implements[Min(unmet)]]
             ELSE [exc |-> FALSE, missing |-> Undefined]

\* the uppercase check made on the first segment of the name
classNameCheckLeading(s, args) ==
    IF args.name[1] \in LowerSegments
    THEN ConsoleError(s, <<"uppercase", args.name>>)
    ELSE s

\* the uppercase check on the last segment of the name: reports, never throws
classNameCheck(s, args) ==
    IF args.name[Len(args.name)] \in LowerSegments
    THEN ConsoleError(s, <<"uppercase", args.name>>)
    ELSE s

\* the interface checks made when config.debug.interfaces.check is on: an
\* implemented interface that is no longer in the tree is reported and then
\* dereferenced (currentInterface.prototype), which throws
classInterfaceCheck(s, args) ==
    IF s.exc \/ ~DebugInterfacesCheck THEN s
    ELSE LET got == [i \in 1..Len(args.implements) |->
                        definitionGet(s.tree, args.implements[i])]
         IN  IF \E i \in 1..Len(args.implements) : got[i].exc THEN Throw(s)
             ELSE IF \E i \in 1..Len(args.implements) : got[i].value = "undef"
                  THEN Throw(ConsoleError(s, <<"non-interface", args.name>>))
             ELSE IF \E i \in 1..Len(args.implements) : got[i].value # "interface"
                  THEN ConsoleError(s, <<"non-interface", args.name>>)
             ELSE s

classProcess(s, args) ==
    IF s.exc THEN s
    ELSE LET s1 == classNameCheck(s, args)
             Extends == definitionGet(s1.tree, args.extends)
         IN  IF Extends.exc THEN Throw(s1)
             \* Extends.extend is a function only on classes and interfaces
             ELSE IF Extends.value \in {"namespace", "value"} THEN Throw(s1)
             ELSE LET Marked(s3) ==
                          IF s3.exc THEN s3
                          ELSE [s3 EXCEPT !.classes[args.name] = "true"]
                  IN  Marked(definitionSet(classInterfaceCheck(s1, args),
                                           args.name, "class"))

RECURSIVE PopNulls(_)
PopNulls(q) ==
    IF Len(q) > 0 /\ q[Len(q)] = Null THEN PopNulls(SubSeq(q, 1, Len(q) - 1)) ELSE q

RECURSIVE ShiftNulls(_)
ShiftNulls(q) ==
    IF Len(q) > 0 /\ q[1] = Null THEN ShiftNulls(Tail(q)) ELSE q

\* the for loop of classProcessDeferred walking the queue from its last
\* entry to its first
RECURSIVE classScanReverse(_, _, _)
classScanReverse(s, index, seen) ==
    IF s.exc \/ index > Len(s.classesToProcess) THEN [s |-> s, seen |-> seen]
    ELSE LET pos == Len(s.classesToProcess) + 1 - index
             args == s.classesToProcess[pos]
         IN  IF args # Null /\ classMissing(s, args).missing = Undefined
             THEN LET Nulled(s1) ==
                          IF s1.exc THEN [s |-> s1, seen |-> TRUE]
                          ELSE classScanReverse(
                                   [s1 EXCEPT !.classesToProcess[pos] = Null],
                                   index + 1, TRUE)
                  IN  Nulled(classProcess(Note(s, args), args))
             ELSE classScanReverse(s, index + 1, seen)

\* the for loop of one do-while round, from position index on: [s, seen]
RECURSIVE classScan(_, _, _)
classScan(s, index, seen) ==
    IF s.exc \/ index > Len(s.classesToProcess) THEN [s |-> s, seen |-> seen]
    ELSE LET args == s.classesToProcess[index]
         IN  IF args # Null /\ classMissing(s, args).missing = Undefined
             THEN LET Nulled(s1) ==
                          IF s1.exc THEN [s |-> s1, seen |-> TRUE]
                          ELSE classScan([s1 EXCEPT !.classesToProcess[index] = Null],
                                         index + 1, TRUE)
                  IN  Nulled(classProcess(Note(s, args), args))
             ELSE classScan(s, index + 1, seen)

RECURSIVE classProcessDeferred(_)
classProcessDeferred(s) ==
    IF s.exc THEN s
    ELSE LET Again(s2, seen) == IF seen THEN classProcessDeferred(s2) ELSE s2
             Trimmed(r) ==
                 IF r.s.exc THEN r.s
                 ELSE Again([r.s EXCEPT !.classesToProcess = ShiftNulls(PopNulls(@))],
                            r.seen)
         IN  Trimmed(classScan(NewRound(s), 1, FALSE))

\* cycligent.class without the deferred pass after a direct resolution
classNoDeferred(s, args) ==
    IF classMissing(s, args).missing = Undefined
    THEN classProcess(s, args)
    ELSE [s EXCEPT !.classes[args.name] = "false",
                   !.classesToProcess = Append(@, args)]

\* cycligent.class
class(s, args) ==
    IF classMissing(s, args).missing = Undefined
    THEN classProcessDeferred(classProcess(s, args))
    ELSE [s EXCEPT !.classes[args.name] = "false",
                   !.classesToProcess = Append(@, args)]

(***************************************************************************)
(* Interfaces.                                                             *)
(***************************************************************************)
interfaceMissing(s, args) ==
    IF args.name = Undefined THEN [exc |-> TRUE, missing |-> Undefined]
    ELSE LET anc == AncestorMissing(s.tree, args.name)
         IN  IF anc # Undefined THEN [exc |-> FALSE, missing |-> anc]
             ELSE IF args.extends # Undefined /\ s.interfaces[args.extends] # "true"
                  THEN [exc |-> FALSE, missing |-> args.extends]
             ELSE [exc |-> FALSE, missing |-> Undefined]

\* With an extends argument the extended interface is built but never
\* assigned to newInterface, so newInterface.cyName = ... throws.
interfaceProcess(s, args) ==
    IF s.exc THEN s
    ELSE IF args.extends # Undefined
         THEN Throw(s)
         ELSE definitionSet(s, args.name, "interface")

\* the for loop of one do-while round: [s, seen].  The loop tests and
\* processes `this` (self), not the queue entry args it has just read.
RECURSIVE interfaceScan(_, _, _, _)
interfaceScan(s, self, index, seen) ==
    IF s.exc \/ index > Len(s.interfacesToProcess) THEN [s |-> s, seen |-> seen]
    ELSE LET args == s.interfacesToProcess[index]
             m == interfaceMissing(s, self)
         IN  IF args = Null THEN interfaceScan(s, self, index + 1, seen)
             ELSE IF m.exc THEN [s |-> Throw(s), seen |-> seen]
             ELSE IF m.missing = Undefined
                  THEN LET Nulled(s1) ==
                               IF s1.exc THEN [s |-> s1, seen |-> TRUE]
                               ELSE interfaceScan(
                                        [s1 EXCEPT !.interfacesToProcess[index] = Null],
                                        self, index + 1, TRUE)
                       IN  Nulled(interfaceProcess(s, self))
             ELSE interfaceScan(s, self, index + 1, seen)

\* the do-while rounds: [s, interfaceProcessed]
RECURSIVE interfaceRounds(_, _, _)
interfaceRounds(s, self, interfaceProcessed) ==
    LET Again(s2, seen) ==
            IF seen THEN interfaceRounds(s2, self, TRUE)
            ELSE [s |-> s2, seen |-> interfaceProcessed]
        Trimmed(r) ==
            IF r.s.exc THEN [s |-> r.s, seen |-> interfaceProcessed]
            ELSE Again([r.s EXCEPT !.interfacesToProcess = ShiftNulls(PopNulls(@))],
                       r.seen)
    IN  Trimmed(interfaceScan(s, self, 1, FALSE))

interfaceProcessDeferred(s) ==
    IF s.exc THEN s
    ELSE LET Classes(r) == IF r.seen THEN classProcessDeferred(r.s) ELSE r.s
         IN  Classes(interfaceRounds(s, CycligentThis, FALSE))

\* cycligent.interface
interface(s, args) ==
    IF interfaceMissing(s, args).missing = Undefined
    THEN LET Marked(s1) ==
                 IF s1.exc THEN s1
                 ELSE interfaceProcessDeferred(
                          [s1 EXCEPT !.interfaces[args.name] = "true"])
         IN  Marked(interfaceProcess(s, args))
    ELSE [s EXCEPT !.interfaces[args.name] = "false",
                   !.interfacesToProcess = Append(@, args)]

(***************************************************************************)
(* Definitions.  The definition argument is "none" (absent), "object" (a   *)
(* plain value), "function" (a factory returning nothing),                 *)
(* "functionValue" (a factory returning a value) or "functionDefines" (a   *)
(* factory that calls cycligent.define and returns nothing).               *)
(***************************************************************************)
definitionMissing(s, args) == AncestorMissing(s.tree, args.name)

\* what a "functionDefines" factory does: cycligent.define("G")
FactoryInner == [kind |-> "define", name |-> nG, definition |-> "none", priority |-> 0]

RECURSIVE define(_, _)

\* args.definition() for a factory that registers FactoryInner; every nested
\* run of a factory takes stack, and the engine throws when it runs out
definitionFactory(s, args) ==
    IF s.depth >= MaxDepth THEN Throw([s EXCEPT !.overflow = TRUE])
    ELSE LET s1 == [Runs(s, args) EXCEPT !.factories = Append(@, args.name),
                                          !.depth = @ + 1]
         IN  [define(s1, FactoryInner) EXCEPT !.depth = s.depth]

\* definitionSet with the object args.definition as the value.  Assigning
\* the object that is at the path already changes nothing; the objects of
\* two calls of cycligent.define are taken to be different objects.
definitionSetObject(s, args) ==
    IF s.exc THEN s
    ELSE IF /\ s.tree[args.name] = "value"
            /\ s.holder[args.name] = args
            /\ s.regCount[args] = 1
         THEN s
    ELSE LET Held(r) == IF r.exc THEN r ELSE [r EXCEPT !.holder[args.name] = args]
         IN  Held(definitionSet(s, args.name, "value"))

\* definitionSet with the object a factory has just returned as the value
definitionSetReturned(s, args) ==
    LET Held(r) == IF r.exc THEN r ELSE [r EXCEPT !.holder[args.name] = Null]
    IN  Held(definitionSet(s, args.name, "value"))

definitionProcess2(s, args) ==
    IF s.exc \/ args.definition = "none" THEN s
    ELSE IF args.priority # 0
         THEN [s EXCEPT !.priorityDefinitions = Append(@, args)]
    ELSE IF args.definition = "function" THEN Runs(s, args)
    ELSE IF args.definition = "functionDefines" THEN definitionFactory(s, args)
    ELSE IF args.definition = "functionValue"
         THEN definitionSetReturned(Runs(s, args), args)
    ELSE definitionSetObject(s, args)

definitionProcess(s, args) ==
    IF s.exc THEN s
    ELSE LET got == definitionGet(s.tree, args.name)
         IN  IF got.exc THEN Throw(s)
             ELSE IF got.value = "undef"
                  THEN definitionProcess2(definitionSet(s, args.name, "namespace"), args)
             ELSE definitionProcess2(s, args)

\* the for loop of one do-while round; a processed entry is spliced out and
\* the index stays where it is
RECURSIVE definitionScan(_, _, _)
definitionScan(s, index, seen) ==
    IF s.exc \/ index > Len(s.definitionsToProcess) THEN [s |-> s, seen |-> seen]
    ELSE LET args == s.definitionsToProcess[index]
         IN  IF args # Null /\ definitionMissing(s, args) = Undefined
             THEN LET Spliced(s1) ==
                          IF s1.exc THEN [s |-> s1, seen |-> TRUE]
                          ELSE definitionScan(
                                   [s1 EXCEPT !.round = s.round, !.definitionsToProcess =
                                        SubSeq(@, 1, index - 1)
                                            \o SubSeq(@, index + 1, Len(@))],
                                   index, TRUE)
                  IN  Spliced(definitionProcess(Note(s, args), args))
             ELSE definitionScan(s, index + 1, seen)

RECURSIVE definitionProcessDeferred(_)
definitionProcessDeferred(s) ==
    IF s.exc THEN s
    ELSE LET Again(r) ==
                 IF r.s.exc THEN r.s
                 ELSE IF r.seen THEN definitionProcessDeferred(r.s) ELSE r.s
         IN  Again(definitionScan(NewRound(s), 1, FALSE))

\* cycligent.define
define(s, args) ==
    IF definitionMissing(s, args) = Undefined
    THEN definitionProcessDeferred(definitionProcess(s, args))
    ELSE [s EXCEPT !.definitionsToProcess = Append(@, args)]

\* Array.prototype.sort with (a, b) -> a.priority - b.priority, as the
\* insertion sort the engines use for short arrays (equal priorities keep
\* their order)
RECURSIVE InsertByPriority(_, _)
InsertByPriority(sorted, d) ==
    IF sorted = <<>> THEN <<d>>
    ELSE IF sorted[Len(sorted)].priority <= d.priority THEN Append(sorted, d)
    ELSE Append(InsertByPriority(SubSeq(sorted, 1, Len(sorted) - 1), d),
                sorted[Len(sorted)])

\* cycligent.define.execute without the sort
SortNone(q) == q

RECURSIVE SortByPriority(_)
SortByPriority(q) ==
    IF q = <<>> THEN <<>>
    ELSE InsertByPriority(SortByPriority(SubSeq(q, 1, Len(q) - 1)), q[Len(q)])

\* the loop of cycligent.define.execute from position index on
RECURSIVE executeLoop(_, _)
executeLoop(s, index) ==
    IF s.exc \/ index > Len(s.priorityDefinitions) THEN s
    ELSE LET d == s.priorityDefinitions[index]
             s0 == [s EXCEPT !.ran = Append(@, d)]
             s1 == IF d.definition = "function" THEN Runs(s0, d)
                   ELSE IF d.definition = "functionDefines" THEN definitionFactory(s0, d)
                   ELSE IF d.definition = "functionValue"
                   THEN definitionSetReturned(Runs(s0, d), d)
                   ELSE definitionSetObject(Runs(s0, d), d)
         IN  executeLoop(interfaceProcessDeferred(classProcessDeferred(s1)), index + 1)

\* cycligent.define.execute
defineExecute(s) ==
    IF s.exc THEN s
    ELSE executeLoop([s EXCEPT !.priorityDefinitions = SortByPriority(@)], 1)

(***************************************************************************)
(* cycligent.Script and cycligent.Imports.                                 *)
(* scripts[id] describes what cycligent.imports.scripts[id] holds:         *)
(*   requested  the table has an entry for id                              *)
(*   loaded     the Script's loaded flag                                   *)
(*   inflight   script elements appended whose load event has not fired    *)
(*   timers     setInterval timers that have not been cleared              *)
(*   timedOut   history: "Script Import Failed" was reported for id        *)
(*   reports    history: how many times it was reported for id             *)
(*   epoch      history: the value of settled when id was requested        *)
(***************************************************************************)
NoScript == [requested |-> FALSE, loaded |-> FALSE, inflight |-> 0, timers |-> 0,
             timedOut |-> FALSE, reports |-> 0, epoch |-> 0]

DoImports == cfg.test \in {"none", "imports"}

\* new cycligent.Script(scriptId): appends the script element, starts the timer
ScriptInit(s, id) ==
    [s EXCEPT !.scripts[id] = [@ EXCEPT !.requested = TRUE,
                                        !.inflight = @ + 1,
                                        !.timers = @ + 1,
                                        !.epoch = s.settled]]

\* cycligent.import without the test for an existing entry
ImportNoDedup(s, id) ==
    IF s.exc \/ ~DoImports THEN s
    ELSE ScriptInit([s EXCEPT !.scriptsPending = @ + 1, !.scriptsCount = @ + 1], id)

\* cycligent.import without the test-mode early return
ImportInTestMode(s, id) ==
    IF s.exc THEN s
    ELSE IF s.scripts[id].requested THEN s
    ELSE ScriptInit([s EXCEPT !.scriptsPending = @ + 1, !.scriptsCount = @ + 1], id)

\* cycligent.import
Import(s, id) ==
    IF s.exc \/ ~DoImports THEN s
    ELSE IF s.scripts[id].requested THEN s
    ELSE ScriptInit([s EXCEPT !.scriptsPending = @ + 1, !.scriptsCount = @ + 1], id)

\* cycligent.Script.timeout giving up on the script by decrementing the counter
ScriptTimeoutDecrements(s, id) ==
    ConsoleError([s EXCEPT !.scripts[id] = [@ EXCEPT !.timers = @ - 1,
                                                     !.timedOut = TRUE,
                                                     !.reports = @ + 1],
                           !.scriptsPending = @ - 1],
                 <<"Script Import Failed", id>>)

\* cycligent.Script.timeout
ScriptTimeout(s, id) ==
    ConsoleError([s EXCEPT !.scripts[id] = [@ EXCEPT !.timers = @ - 1,
                                                     !.timedOut = TRUE,
                                                     !.reports = @ + 1]],
                 <<"Script Import Failed", id>>)

(***************************************************************************)
(* cycligent.appLoad: the readiness gate and the finalizer.                *)
(* mainThrows says whether the application's main() raises an exception    *)
(* should it be invoked by this callback.                                  *)
(***************************************************************************)
\* the observers called by one run of the notification loop
NotifyAll(s) ==
    [s EXCEPT !.notified = [f \in DOMAIN @ |->
                               @[f] + Cardinality({i \in 1..Len(s.notifyFunctions) :
                                                      s.notifyFunctions[i] = f})],
              !.called = @ \o s.notifyFunctions]

\* mainGo without the test-mode branch
mainGoIgnoreTest(s, mainThrows) ==
    IF s.exc THEN s
    ELSE IF s.appLoadFinished = FALSE
         THEN LET s1 == [s EXCEPT !.mainCalls = @ + 1,
                                  !.mainGate = @ /\ s.scriptsReady /\ s.domReady
                                                 /\ s.pageReady]
              IN  IF mainThrows
                  THEN Throw([s1 EXCEPT !.mainThrew = TRUE])
                  ELSE NotifyAll([s1 EXCEPT !.appLoadFinished = TRUE])
    ELSE NotifyAll([s EXCEPT !.appLoadFinished = TRUE])

\* mainGo notifying the observers on its first run only
mainGoNotifyOnce(s, mainThrows) ==
    IF s.exc THEN s
    ELSE IF s.appLoadFinished THEN s
    ELSE IF cfg.test # "none"
         THEN NotifyAll([s EXCEPT !.scaffoldingReady = TRUE, !.appLoadFinished = TRUE])
    ELSE LET s1 == [s EXCEPT !.mainCalls = @ + 1,
                             !.mainGate = @ /\ s.scriptsReady /\ s.domReady
                                            /\ s.pageReady]
         IN  IF mainThrows
             THEN Throw([s1 EXCEPT !.mainThrew = TRUE])
             ELSE NotifyAll([s1 EXCEPT !.appLoadFinished = TRUE])

\* mainGo setting appLoadFinished before it calls main()
mainGoFinishedFirst(s, mainThrows) ==
    IF s.exc THEN s
    ELSE IF cfg.test # "none"
         THEN NotifyAll([s EXCEPT !.scaffoldingReady = TRUE, !.appLoadFinished = TRUE])
    ELSE IF s.appLoadFinished = FALSE
         THEN LET s1 == [s EXCEPT !.mainCalls = @ + 1,
                                  !.appLoadFinished = TRUE,
                                  !.mainGate = @ /\ s.scriptsReady /\ s.domReady
                                                 /\ s.pageReady]
              IN  IF mainThrows
                  THEN Throw([s1 EXCEPT !.mainThrew = TRUE])
                  ELSE NotifyAll(s1)
    ELSE NotifyAll([s EXCEPT !.appLoadFinished = TRUE])

mainGo(s, mainThrows) ==
    IF s.exc THEN s
    ELSE IF cfg.test # "none"
         THEN NotifyAll([s EXCEPT !.scaffoldingReady = TRUE, !.appLoadFinished = TRUE])
    ELSE IF s.appLoadFinished = FALSE
         THEN LET s1 == [s EXCEPT !.mainCalls = @ + 1,
                                  !.mainGate = @ /\ s.scriptsReady /\ s.domReady
                                                 /\ s.pageReady]
              IN  IF mainThrows
                  THEN Throw([s1 EXCEPT !.mainThrew = TRUE])
                  ELSE NotifyAll([s1 EXCEPT !.appLoadFinished = TRUE])
    ELSE NotifyAll([s EXCEPT !.appLoadFinished = TRUE])

\* the two diagnostic loops of _executeMain; o.name on a null slot throws
RECURSIVE reportInterfaces(_, _)
reportInterfaces(s, index) ==
    IF s.exc \/ index > Len(s.interfacesToProcess) THEN s
    ELSE LET o == s.interfacesToProcess[index]
         IN  IF o = Null THEN Throw(s)
             ELSE reportInterfaces(
                      ConsoleError(s, <<"interface failed", o.name,
                                        interfaceMissing(s, o).missing>>),
                      index + 1)

RECURSIVE reportClasses(_, _)
reportClasses(s, index) ==
    IF s.exc \/ index > Len(s.classesToProcess) THEN s
    ELSE LET o == s.classesToProcess[index]
         IN  IF o = Null THEN Throw(s)
             ELSE reportClasses(
                      ConsoleError(s, <<"class failed", o.name,
                                        classMissing(s, o).missing>>),
                      index + 1)

\* the exception boundary around mainGo
Boundary(s, mainThrows) ==
    IF s.exc THEN s
    ELSE LET r == mainGo(s, mainThrows)
         IN  IF cfg.doNotCatch THEN r
             ELSE IF r.exc THEN ConsoleError([r EXCEPT !.exc = FALSE], <<"exception">>)
             ELSE r

executeMain(s, mainThrows) ==
    Boundary(reportClasses(reportInterfaces(s, 1), 1), mainThrows)

\* readyCheck that does not wait for the page
readyCheckNoPage(s, mainThrows) ==
    IF s.exc THEN s
    ELSE IF s.scriptsReady /\ s.domReady
         THEN executeMain([s EXCEPT !.tripped = TRUE], mainThrows)
         ELSE s

readyCheck(s, mainThrows) ==
    IF s.exc THEN s
    ELSE IF s.scriptsReady /\ s.domReady /\ s.pageReady
         THEN executeMain([s EXCEPT !.tripped = TRUE], mainThrows)
         ELSE s

allScriptsLoaded2(s, mainThrows) == readyCheck(defineExecute(s), mainThrows)

\* every missing segment of the name, the name itself included, becomes {}
Placeholders(s, name) ==
    [s EXCEPT !.tree = [p \in Paths |->
        IF (p = name \/ IsStrictPrefix(p, name)) /\ s.tree[p] = "undef"
        THEN "namespace" ELSE s.tree[p]]]

\* the loop of _createAssumedDefinitions from position defIndex on; the
\* entries stay in definitionsToProcess
RECURSIVE assumeLoop(_, _)
assumeLoop(s, defIndex) ==
    IF s.exc \/ defIndex > Len(s.definitionsToProcess) THEN s
    ELSE LET definition == s.definitionsToProcess[defIndex]
         IN  assumeLoop(definitionProcess2(Placeholders(s, definition.name), definition),
                        defIndex + 1)

createAssumedDefinitions(s, mainThrows) ==
    allScriptsLoaded2(interfaceProcessDeferred(classProcessDeferred(assumeLoop(s, 1))),
                      mainThrows)

\* cycligent.appLoad.allScriptsLoaded
allScriptsLoaded(s, mainThrows) ==
    LET s1 == [s EXCEPT !.scriptsReady = TRUE, !.settled = @ + 1]
    IN  IF Len(s1.definitionsToProcess) > 0
        THEN createAssumedDefinitions(s1, mainThrows)
        ELSE allScriptsLoaded2(s1, mainThrows)

\* cycligent.Imports.scriptLoaded settling one completion early
importsScriptLoadedOffByOne(s, mainThrows) ==
    LET Counted(s2) ==
            IF s2.scriptsPending <= 1 THEN allScriptsLoaded(s2, mainThrows) ELSE s2
        Resolved(s1) ==
            IF s1.exc THEN s1 ELSE Counted([s1 EXCEPT !.scriptsPending = @ - 1])
    IN  Resolved(interfaceProcessDeferred(classProcessDeferred(s)))

\* cycligent.Imports.scriptLoaded
importsScriptLoaded(s, mainThrows) ==
    LET Counted(s2) ==
            IF s2.scriptsPending = 0 THEN allScriptsLoaded(s2, mainThrows) ELSE s2
        Resolved(s1) ==
            IF s1.exc THEN s1 ELSE Counted([s1 EXCEPT !.scriptsPending = @ - 1])
    IN  Resolved(interfaceProcessDeferred(classProcessDeferred(s)))

\* cycligent.Script.scriptLoaded without the clearInterval
scriptLoadedKeepsTimer(s, id, mainThrows) ==
    importsScriptLoaded(
        [s EXCEPT !.scripts[id] = [@ EXCEPT !.inflight = @ - 1,
                                            !.loaded = TRUE]],
        mainThrows)

\* cycligent.Script.scriptLoaded
scriptScriptLoaded(s, id, mainThrows) ==
    importsScriptLoaded(
        [s EXCEPT !.scripts[id] = [@ EXCEPT !.inflight = @ - 1,
                                            !.timers = IF @ > 0 THEN @ - 1 ELSE 0,
                                            !.loaded = TRUE]],
        mainThrows)

domLoaded(s, mainThrows) ==
    readyCheck([s EXCEPT !.domReady = TRUE, !.domEvent = "fired"], mainThrows)

pageLoaded(s, mainThrows) ==
    readyCheck([s EXCEPT !.pageReady = TRUE, !.pageEvent = "fired"], mainThrows)

\* cycligent.appLoad.load
load(s, mainThrows) ==
    LET s1 == IF cfg.test = "none" /\ cfg.waitDom
              THEN [s EXCEPT !.domEvent = "armed"]
              ELSE [s EXCEPT !.domReady = TRUE]
        s2 == IF cfg.test = "none" /\ cfg.waitPage
              THEN [s1 EXCEPT !.pageEvent = "armed"]
              ELSE [s1 EXCEPT !.pageReady = TRUE]
    IN  IF DoImports
        THEN Import([s2 EXCEPT !.scriptsPending = @ - 1], StartupScript)
        ELSE LET s3 == [s2 EXCEPT !.scriptsReady = TRUE]
             IN  IF Len(s3.definitionsToProcess) > 0
                 THEN createAssumedDefinitions(s3, mainThrows)
                 ELSE allScriptsLoaded2(s3, mainThrows)

\* cycligent.appLoad.notify
\* cycligent.appLoad.notify without the search for func in the list
notifyNoDedup(s, func) == [s EXCEPT !.notifyFunctions = Append(@, func)]

notify(s, func) ==
    IF \E index \in 1..Len(s.notifyFunctions) : s.notifyFunctions[index] = func
    THEN s
    ELSE [s EXCEPT !.notifyFunctions = Append(@, func)]

\* cycligent.appLoad.notifyClear
notifyClear(s, func) ==
    [s EXCEPT !.notifyFunctions = SelectSeq(@, LAMBDA g : g # func)]

(***************************************************************************)
(* The state machine.                                                      *)
(***************************************************************************)
\* the program state as the record the handlers work on
Cur ==
    [tree |-> tree, classes |-> classes, interfaces |-> interfaces,
     classesToProcess |-> classesToProcess,
     interfacesToProcess |-> interfacesToProcess,
     definitionsToProcess |-> definitionsToProcess,
     priorityDefinitions |-> priorityDefinitions,
     scriptsPending |-> scriptsPending, scriptsCount |-> scriptsCount,
     scripts |-> scripts, scriptsReady |-> scriptsReady, domReady |-> domReady,
     pageReady |-> pageReady, appLoadFinished |-> appLoadFinished,
     notifyFunctions |-> notifyFunctions, scaffoldingReady |-> scaffoldingReady,
     domEvent |-> domEvent, pageEvent |-> pageEvent, errors |-> errors,
     mainCalls |-> mainCalls, settled |-> settled, notified |-> notified,
     mainGate |-> mainGate, mainThrew |-> FALSE, called |-> <<>>, ran |-> <<>>,
     tripped |-> FALSE, resolved |-> <<>>, round |-> 0, roundCount |-> 0,
     factories |-> <<>>, depth |-> 0, overflow |-> FALSE, regCount |-> regCount,
     runCount |-> runCount, holder |-> holder, exc |-> FALSE]

(***************************************************************************)
(* cycligent.timing.  An event of the timeline is kept with its title, its *)
(* indent and its idle mark; times and durations are left out.  The indent *)
(* argument of a call is <<>> when it is not given and <<i>> otherwise.    *)
(* No observer is registered with cycligent.timing.notify.                 *)
(***************************************************************************)
\* events.length above which the oldest events are dropped
TimingEventsCap == 200

HtmlTitle == "Load HTML file components (css & scripts) - does not include HTML file"

\* the closure variables after the module function has run; the page may
\* have set window.cycligentRunningBase
timingModule(runningBaseSet) ==
    [events |-> IF runningBaseSet
                THEN <<[title |-> HtmlTitle, indent |-> 0, idle |-> FALSE]>>
                ELSE <<>>,
     indentCurrent |-> 0,
     idle |-> FALSE,
     idleIndent |-> 0,
     calls |-> 0,
     op |-> "none",
     open |-> 0,
     idleEvents |-> 0]

\* new TimingEvent(title, indent): scanBackward reaches scanForward, which
\* trims the timeline, when an older event has indent 0
TimingEvent(t, title, indent) ==
    LET ic == IF indent # <<>> THEN indent[1] ELSE t.indentCurrent
        pushed == Append(t.events, [title |-> title, indent |-> ic, idle |-> FALSE])
        n == Len(pushed)
        scanForward == \E i \in 1..(n - 1) : pushed[i].indent = 0
        trimmed == IF scanForward /\ n > TimingEventsCap
                   THEN SubSeq(pushed, n - TimingEventsCap + 1, n)
                   ELSE pushed
    IN  [t EXCEPT !.events = trimmed,
                  !.indentCurrent = ic,
                  !.idle = FALSE,
                  !.idleEvents = IF title = "Idle" THEN @ + 1 ELSE @]

\* the event the caller holds is the last of the timeline: event.idle = true
MarkIdle(t) == [t EXCEPT !.events[Len(t.events)].idle = TRUE]

\* cycligent.timing.clear
clear(t) ==
    MarkIdle(TimingEvent([t EXCEPT !.events = <<>>], "Timings cleared", <<0>>))

\* cycligent.timing.event
event(t, indent) == TimingEvent(t, "Event", indent)

\* cycligent.timing.eventIndent
eventIndent(t, increaseIdleIndent, indent) ==
    LET t1 == TimingEvent(t, "Event", <<indent>>)
        t2 == TimingEvent(t1, "Network/Other", <<indent + 1>>)
    IN  IF increaseIdleIndent THEN [t2 EXCEPT !.idleIndent = @ + 1] ELSE t2

\* cycligent.timing.asyncBegin
asyncBegin(t, indent) ==
    [TimingEvent(t, "Async", indent) EXCEPT !.idleIndent = @ + 1]

\* cycligent.timing.idleIndent
idleIndent(t) == [t EXCEPT !.idleIndent = @ + 1]

\* cycligent.timing.idle recording "Idle" only when no process is counted
idleAtZero(t) ==
    IF t.idleIndent > 0
    THEN [t EXCEPT !.idleIndent = @ - 1]
    ELSE [MarkIdle(TimingEvent([t EXCEPT !.idleIndent = 0], "Idle", <<0>>))
            EXCEPT !.idle = TRUE]

\* cycligent.timing.idle
idle(t) ==
    IF t.idleIndent > 1
    THEN [t EXCEPT !.idleIndent = @ - 1]
    ELSE [MarkIdle(TimingEvent([t EXCEPT !.idleIndent = 0], "Idle", <<0>>))
            EXCEPT !.idle = TRUE]

\* cycligent.timing.asyncEnd
asyncEnd(t) == idle(t)

\* history of a call into cycligent.timing: begins is 1 for a call that
\* begins an asynchronous process, ends is 1 for one that ends one
TimingCall(t, op, begins, ends) ==
    /\ timing.calls < MaxTimingCalls
    /\ timing' = [t EXCEPT !.calls = @ + 1,
                           !.op = op,
                           !.open = IF @ + begins - ends < 0 THEN 0
                                    ELSE @ + begins - ends]
    /\ UNCHANGED <<loaderVars, console>>

(***************************************************************************)
(* cycligent.console.  A message is kept with its type and its text; the   *)
(* text logged by the n-th call of a run is n.  No observer is registered  *)
(* with cycligent.console.notify.  The set errors above is what the loader *)
(* reported, whatever the console keeps of it.                             *)
(***************************************************************************)
\* messages.length above which the oldest message is dropped
ConsoleCap == 100

messageType == {"info", "log", "warn", "error"}

\* the types user code passes to cycligent.console.message: those of the
\* enumeration and one that is not in it
LogTypes == messageType \cup {"custom"}

UnknownText == "Unknown message type"

\* the closure variables after the module function has run: clear() has
\* set the counters to 0
consoleModule(type) ==
    [messages |-> <<>>,
     countMap |-> [t \in messageType |-> 0],
     type |-> type,
     calls |-> 0,
     logged |-> <<>>]

\* cycligent.console.clear
consoleClear(c) ==
    [c EXCEPT !.messages = <<>>,
              !.countMap = [t \in messageType |-> 0],
              !.logged = <<>>]

\* messages.push(message) and what follows it in messageAdd, keeping every
\* message
StoreKeepsAll(c, type, text) ==
    LET message == [type |-> type, message |-> text]
    IN  [c EXCEPT !.messages = Append(c.messages, message),
                  !.countMap = IF type \in messageType
                               THEN [@ EXCEPT ![type] = @ + 1] ELSE @,
                  !.logged = Append(@, message)]

\* messages.push(message) and what follows it in messageAdd
Store(c, type, text) ==
    LET message == [type |-> type, message |-> text]
        pushed == Append(c.messages, message)
    IN  [c EXCEPT !.messages = IF Len(pushed) > ConsoleCap THEN Tail(pushed)
                                ELSE pushed,
                  !.countMap = IF type \in messageType
                               THEN [@ EXCEPT ![type] = @ + 1] ELSE @,
                  !.logged = Append(@, message)]

\* messageAdd: new Message(type, text) reports a type that is not in the
\* enumeration through console.error, which is cycligent.console.error
\* since cycligent.console.init(), before the message itself is stored
messageAdd(c, type, text) ==
    LET c1 == IF type \notin messageType
              THEN Store(c, "error", <<UnknownText, type>>)
              ELSE c
    IN  Store(c1, type, text)

\* history of a call into cycligent.console
ConsoleCall(c) ==
    /\ console.calls < MaxMessages
    /\ console' = [c EXCEPT !.calls = @ + 1]
    /\ UNCHANGED <<loaderVars, timing>>

\* the state a handler leaves behind; an exception still propagating when
\* the handler ends is uncaught
Commit(s, op, arg) ==
    /\ tree' = s.tree
    /\ classes' = s.classes
    /\ interfaces' = s.interfaces
    /\ classesToProcess' = s.classesToProcess
    /\ interfacesToProcess' = s.interfacesToProcess
    /\ definitionsToProcess' = s.definitionsToProcess
    /\ priorityDefinitions' = s.priorityDefinitions
    /\ scriptsPending' = s.scriptsPending
    /\ scriptsCount' = s.scriptsCount
    /\ scripts' = s.scripts
    /\ scriptsReady' = s.scriptsReady
    /\ domReady' = s.domReady
    /\ pageReady' = s.pageReady
    /\ appLoadFinished' = s.appLoadFinished
    /\ notifyFunctions' = s.notifyFunctions
    /\ scaffoldingReady' = s.scaffoldingReady
    /\ domEvent' = s.domEvent
    /\ pageEvent' = s.pageEvent
    /\ errors' = s.errors
    /\ mainCalls' = s.mainCalls
    /\ settled' = s.settled
    /\ notified' = s.notified
    /\ mainGate' = s.mainGate
    /\ executed' = executed \cup {s.ran[i] : i \in 1..Len(s.ran)}
    /\ lastOp' = [op |-> op, arg |-> arg, threw |-> s.exc, mainThrew |-> s.mainThrew,
                  called |-> s.called, ran |-> s.ran, tripped |-> s.tripped,
                  resolved |-> s.resolved, factories |-> s.factories,
                  overflow |-> s.overflow]
    /\ regCount' = s.regCount
    /\ runCount' = s.runCount
    /\ holder' = [p \in Paths |-> IF s.tree[p] = "value" THEN s.holder[p] ELSE Null]
    /\ cfg' = cfg
    /\ timing' = timing
    /\ console' = console

Configs ==
    {[test |-> "none", waitDom |-> w[1], waitPage |-> w[2], doNotCatch |-> w[3],
      maxCalls |-> MaxCalls, loader |-> "valid"] :
        w \in {<<FALSE, FALSE, FALSE>>, <<TRUE, FALSE, FALSE>>, <<FALSE, TRUE, FALSE>>,
                <<TRUE, TRUE, FALSE>>, <<TRUE, TRUE, TRUE>>}}
    \cup {[test |-> t, waitDom |-> FALSE, waitPage |-> FALSE, doNotCatch |-> FALSE,
           maxCalls |-> MaxCalls, loader |-> "valid"] :
        t \in {"imports", "noimports"}}

\* the loader configurations of the registry specification
RegConfigs ==
    {[test |-> "none", waitDom |-> w, waitPage |-> FALSE, doNotCatch |-> FALSE,
      maxCalls |-> MaxCalls, loader |-> "valid"] : w \in BOOLEAN}

\* the configurations of the boot specification: config.js with its loader
\* section, without loader.roots, without loader, or not defining
\* cycligent.config at all; and the test mode, which loads no config.js
BootConfigs ==
    {[test |-> "none", waitDom |-> FALSE, waitPage |-> FALSE, doNotCatch |-> FALSE,
      maxCalls |-> MaxCalls, loader |-> l] :
        l \in {"valid", "noRoots", "noLoader", "noConfig"}}
    \cup {[test |-> "imports", waitDom |-> FALSE, waitPage |-> FALSE,
           doNotCatch |-> FALSE, maxCalls |-> MaxCalls, loader |-> "valid"]}

DiagConfigs == {[c EXCEPT !.maxCalls = MaxDiagCalls] : c \in RegConfigs}

\* the configurations of the priority specification: the same, and the two
\* test modes (which wait neither for the DOM nor for the page)
PrioConfigs ==
    DiagConfigs
    \cup {[test |-> t, waitDom |-> FALSE, waitPage |-> FALSE, doNotCatch |-> FALSE,
           maxCalls |-> MaxDiagCalls, loader |-> "valid"] :
        t \in {"imports", "noimports"}}

\* the state of the loader when cycligent.boot() reaches
\* cycligent.appLoad.load()
InitLoader(configs, entry) ==
    /\ cfg \in configs
    /\ phase = (IF cfg.test = "none" THEN entry ELSE "boot")
    /\ tree = [p \in Paths |-> "undef"]
    /\ classes = [p \in Paths |-> "undef"]
    /\ interfaces = [p \in Paths |-> "undef"]
    /\ classesToProcess = <<>>
    /\ interfacesToProcess = <<>>
    /\ definitionsToProcess = <<>>
    /\ priorityDefinitions = <<>>
    /\ scriptsPending = 1
    /\ scriptsCount = 0
    /\ scripts = [id \in ScriptIds |-> NoScript]
    /\ scriptsReady = FALSE
    /\ domReady = FALSE
    /\ pageReady = FALSE
    /\ appLoadFinished = FALSE
    /\ notifyFunctions = <<>>
    /\ scaffoldingReady = FALSE
    /\ domEvent = "none"
    /\ pageEvent = "none"
    /\ errors = {}
    /\ mainCalls = 0
    /\ settled = 0
    /\ notified = [f \in Observers |-> 0]
    /\ calls = 0
    /\ mainGate = TRUE
    /\ registered = {}
    /\ executed = {}
    /\ libIndex = 0
    /\ regCount = [d \in Tracked |-> 0]
    /\ runCount = [d \in Tracked |-> 0]
    /\ holder = [p \in Paths |-> Null]
    /\ lastOp = [op |-> "event", arg |-> <<>>, threw |-> FALSE, mainThrew |-> FALSE,
                 called |-> <<>>, ran |-> <<>>, tripped |-> FALSE, resolved |-> <<>>,
                 factories |-> <<>>, overflow |-> FALSE]

\* the same, with the timeline as cycligent.timing starts it when the page
\* does not set window.cycligentRunningBase
InitAt(configs, entry) ==
    /\ InitLoader(configs, entry)
    /\ timing = timingModule(FALSE)
    /\ console = consoleModule("log")

\* the state in which cycligent.boot() reaches cycligent.appLoad.load()
InitWith(configs) == InitAt(configs, "boot")

\* the timeline on its own: the loader stays as cycligent.boot() finds it
TimingConfigs == {c \in RegConfigs : ~c.waitDom}

InitTiming ==
    /\ InitLoader(TimingConfigs, "boot")
    /\ timing \in {timingModule(b) : b \in BOOLEAN}
    /\ console = consoleModule("log")

\* the state in which cycligent._loader has requested config.js; in test mode
\* it calls cycligent.boot() at once
InitBoot == InitAt(BootConfigs, "config")

Init == InitWith(Configs)

InitReg == InitWith(RegConfigs)

InitDiag == InitWith(DiagConfigs)

InitPrio == InitWith(PrioConfigs)

Load ==
    /\ phase = "boot"
    /\ phase' = "run"
    /\ \E mainThrows \in BOOLEAN : Commit(load(Cur, mainThrows), "event", <<>>)
    /\ UNCHANGED <<calls, registered, libIndex>>

CallImport(id) ==
    /\ phase = "run"
    /\ calls < cfg.maxCalls
    /\ calls' = calls + 1
    /\ Commit(Import(Cur, id), "import", <<id>>)
    /\ UNCHANGED <<phase, registered, libIndex>>

CallClass(args) ==
    /\ phase = "run"
    /\ calls < cfg.maxCalls
    /\ calls' = calls + 1
    /\ Commit(class(Cur, args), "class", args.name)
    /\ registered' = registered \cup {args}
    /\ UNCHANGED <<phase, libIndex>>

CallInterface(args) ==
    /\ phase = "run"
    /\ calls < cfg.maxCalls
    /\ calls' = calls + 1
    /\ Commit(interface(Cur, args), "interface", args.name)
    /\ registered' = registered \cup {args}
    /\ UNCHANGED <<phase, libIndex>>

CallDefine(args) ==
    /\ phase = "run"
    /\ calls < cfg.maxCalls
    /\ calls' = calls + 1
    /\ Commit(define(Registers(Cur, args), args), "define", args.name)
    /\ registered' = registered \cup {args}
    /\ UNCHANGED <<phase, libIndex>>

ScriptLoaded(id) ==
    /\ scripts[id].inflight > 0
    /\ \E mainThrows \in BOOLEAN :
          Commit(scriptScriptLoaded(Cur, id, mainThrows), "event", <<>>)
    /\ UNCHANGED <<phase, calls, registered, libIndex>>

Timeout(id) ==
    /\ scripts[id].timers > 0
    /\ Cardinality({i \in ScriptIds \ {id} : scripts[i].timedOut}) < MaxTimeouts
    /\ Commit(ScriptTimeout(Cur, id), "event", <<>>)
    /\ UNCHANGED <<phase, calls, registered, libIndex>>

DomLoaded ==
    /\ domEvent = "armed"
    /\ \E mainThrows \in BOOLEAN : Commit(domLoaded(Cur, mainThrows), "event", <<>>)
    /\ UNCHANGED <<phase, calls, registered, libIndex>>

PageLoaded ==
    /\ pageEvent = "armed"
    /\ \E mainThrows \in BOOLEAN : Commit(pageLoaded(Cur, mainThrows), "event", <<>>)
    /\ UNCHANGED <<phase, calls, registered, libIndex>>

CallNotify(func) ==
    /\ phase = "run"
    /\ calls < cfg.maxCalls
    /\ calls' = calls + 1
    /\ Commit(notify(Cur, func), "notify", <<func>>)
    /\ UNCHANGED <<phase, registered, libIndex>>

CallNotifyClear(func) ==
    /\ phase = "run"
    /\ calls < cfg.maxCalls
    /\ calls' = calls + 1
    /\ Commit(notifyClear(Cur, func), "notifyClear", <<func>>)
    /\ UNCHANGED <<phase, registered, libIndex>>

\* the load event of config.js: the callback given to cycligent.EarlyLoader
ConfigLoaded ==
    /\ phase = "config"
    /\ LET v == loaderValid(Cur)
           d == debugValid(v.s)
       IN  IF cfg.loader = "noConfig"
           THEN /\ phase' = "halted"
                /\ libIndex' = libIndex
                /\ Commit(ConsoleError(Cur, <<"config failed to start">>), "event", <<>>)
           ELSE IF ~v.ok \/ ~d.ok
           THEN /\ phase' = "halted"
                /\ libIndex' = libIndex
                /\ Commit(d.s, "event", <<>>)
           \* loadLibs: libIndex = 0, then loadLibLoop
           ELSE IF 0 < NumLibs
           THEN /\ phase' = "libs"
                /\ libIndex' = 1
                /\ Commit(d.s, "event", <<>>)
           ELSE /\ phase' = "run"
                /\ libIndex' = 0
                /\ \E mainThrows \in BOOLEAN : Commit(load(d.s, mainThrows), "event", <<>>)
    /\ UNCHANGED <<calls, registered>>

\* the load event of a boot library: loadLibLoop starts the next library or,
\* after the last one, loadLibEnd calls cycligent.boot()
LibLoaded ==
    /\ phase = "libs"
    /\ IF libIndex < NumLibs
       THEN /\ phase' = "libs"
            /\ libIndex' = libIndex + 1
            /\ Commit(Cur, "event", <<>>)
       ELSE /\ phase' = "run"
            /\ libIndex' = libIndex
            /\ \E mainThrows \in BOOLEAN : Commit(load(Cur, mainThrows), "event", <<>>)
    /\ UNCHANGED <<calls, registered>>

\* the timer of the cycligent.EarlyLoader in flight fires before the load
\* event: it only reports
EarlyTimeout ==
    /\ phase \in {"config", "libs"}
    /\ <<"load failed", libIndex>> \notin errors
    /\ Commit(ConsoleError(Cur, <<"load failed", libIndex>>), "event", <<>>)
    /\ UNCHANGED <<phase, calls, registered, libIndex>>

CallAsyncBegin(indent) == TimingCall(asyncBegin(timing, indent), "asyncBegin", 1, 0)

CallAsyncEnd == TimingCall(asyncEnd(timing), "asyncEnd", 0, 1)

CallIdle == TimingCall(idle(timing), "idle", 0, 1)

CallIdleIndent == TimingCall(idleIndent(timing), "idleIndent", 1, 0)

CallEventIndent(increaseIdleIndent) ==
    TimingCall(eventIndent(timing, increaseIdleIndent, 0), "eventIndent",
               IF increaseIdleIndent THEN 1 ELSE 0, 0)

CallEvent == TimingCall(event(timing, <<>>), "event", 0, 0)

CallTimingClear == TimingCall(clear(timing), "clear", 0, 0)

\* cycligent.console.message(type, n), or info, log, warn, error (n)
CallMessage ==
    ConsoleCall(messageAdd(console, console.type, console.calls + 1))

CallConsoleClear == ConsoleCall(consoleClear(console))

Next ==
    \/ Load
    \/ \E id \in ScriptIds : CallImport(id)
    \/ \E args \in ClassDecls : CallClass(args)
    \/ \E args \in InterfaceDecls : CallInterface(args)
    \/ \E args \in DefineDecls : CallDefine(args)
    \/ \E id \in ScriptIds : ScriptLoaded(id)
    \/ \E id \in ScriptIds : Timeout(id)
    \/ DomLoaded
    \/ PageLoaded
    \/ \E func \in Observers : CallNotify(func)
    \/ \E func \in Observers : CallNotifyClear(func)

Spec == Init /\ [][Next]_vars

\* the registries under the richer catalogue, with the loader events that
\* trigger resolution passes and finalization
NextReg ==
    \/ Load
    \/ \E id \in RegScriptIds : CallImport(id)
    \/ \E args \in RegClassDecls : CallClass(args)
    \/ \E args \in RegInterfaceDecls : CallInterface(args)
    \/ \E args \in RegDefineDecls : CallDefine(args)
    \/ \E id \in ScriptIds : ScriptLoaded(id)
    \/ DomLoaded

SpecReg == InitReg /\ [][NextReg]_vars

SpecDiag == InitDiag /\ [][NextReg]_vars

NextPrio ==
    \/ Load
    \/ \E id \in RegScriptIds : CallImport(id)
    \/ \E args \in PrioClassDecls : CallClass(args)
    \/ \E args \in PrioInterfaceDecls : CallInterface(args)
    \/ \E args \in PrioDefineDecls : CallDefine(args)
    \/ \E id \in ScriptIds : ScriptLoaded(id)
    \/ DomLoaded

SpecPrio == InitPrio /\ [][NextPrio]_vars

\* the registries under the dependency catalogue
NextDep ==
    \/ Load
    \/ \E id \in RegScriptIds : CallImport(id)
    \/ \E args \in DepClassDecls : CallClass(args)
    \/ \E args \in DepInterfaceDecls : CallInterface(args)
    \/ \E args \in DepDefineDecls : CallDefine(args)
    \/ \E id \in ScriptIds : ScriptLoaded(id)
    \/ DomLoaded

SpecDep == InitDiag /\ [][NextDep]_vars

\* the registries under the factory catalogue
NextFac ==
    \/ Load
    \/ \E id \in RegScriptIds : CallImport(id)
    \/ \E args \in PrioClassDecls : CallClass(args)
    \/ \E args \in PrioInterfaceDecls : CallInterface(args)
    \/ \E args \in FacDefineDecls : CallDefine(args)
    \/ \E id \in ScriptIds : ScriptLoaded(id)
    \/ DomLoaded

SpecFac == InitReg /\ [][NextFac]_vars

\* the registries under the naming catalogue
NextName ==
    \/ Load
    \/ \E id \in RegScriptIds : CallImport(id)
    \/ \E args \in NameClassDecls : CallClass(args)
    \/ \E args \in DepInterfaceDecls : CallInterface(args)
    \/ \E args \in DefineDecls : CallDefine(args)
    \/ \E id \in ScriptIds : ScriptLoaded(id)
    \/ DomLoaded

SpecName == InitReg /\ [][NextName]_vars

\* the registries under the value catalogue
NextVal ==
    \/ Load
    \/ \E id \in RegScriptIds : CallImport(id)
    \/ \E args \in ValClassDecls : CallClass(args)
    \/ \E args \in PrioInterfaceDecls : CallInterface(args)
    \/ \E args \in ValDefineDecls : CallDefine(args)
    \/ \E id \in ScriptIds : ScriptLoaded(id)
    \/ DomLoaded

SpecVal == InitReg /\ [][NextVal]_vars

\* the boot of cycligent._loader followed by the loader events
NextBoot ==
    \/ ConfigLoaded
    \/ LibLoaded
    \/ EarlyTimeout
    \/ Load
    \/ \E id \in ScriptIds : CallImport(id)
    \/ \E args \in DefineDecls : CallDefine(args)
    \/ \E id \in ScriptIds : ScriptLoaded(id)
    \/ \E id \in ScriptIds : Timeout(id)

SpecBoot == InitBoot /\ [][NextBoot]_vars

\* the calls user code makes into cycligent.console
InitConsole ==
    /\ InitLoader(TimingConfigs, "boot")
    /\ timing = timingModule(FALSE)
    /\ console \in {consoleModule(type) : type \in LogTypes}

NextConsole ==
    \/ CallMessage
    \/ CallConsoleClear

SpecConsole == InitConsole /\ [][NextConsole]_vars

\* the calls user code makes into cycligent.timing
NextTiming ==
    \/ \E indent \in {<<>>, <<1>>} : CallAsyncBegin(indent)
    \/ CallAsyncEnd
    \/ CallIdle
    \/ CallIdleIndent
    \/ \E increaseIdleIndent \in BOOLEAN : CallEventIndent(increaseIdleIndent)
    \/ CallEvent
    \/ CallTimingClear

SpecTiming == InitTiming /\ [][NextTiming]_vars

(***************************************************************************)
(* Properties.                                                             *)
(***************************************************************************)
Requested == {id \in ScriptIds : scripts[id].requested}

Outstanding == {id \in ScriptIds : scripts[id].requested /\ ~scripts[id].loaded}

\* the set of elements of a sequence
Range(q) == {q[i] : i \in 1..Len(q)}

\* C1: main() is invoked at most once over any sequence of load completions,
\* timeouts, DOM-ready and page-load events and later imports, also when its
\* first invocation raised an exception.
C1_MainAtMostOnce == mainCalls <= 1

\* C2: outside test mode, once every requested script has fired its load
\* event and every readiness signal the configuration waits for has arrived,
\* main() has been invoked, whatever the scripts registered.
C2_MainInvokedOnceAllArrived ==
    (/\ cfg.test = "none"
     /\ phase = "run"
     /\ Outstanding = {}
     /\ domEvent # "armed"
     /\ pageEvent # "armed")
    => mainCalls >= 1

\* C3: appLoad.allScriptsLoaded never runs while a requested script has not
\* completed loading, nor before the startup script has been requested.
C3_SettleOnlyWhenAllLoaded ==
    [][settled' > settled =>
          /\ scripts'[StartupScript].requested
          /\ \A id \in ScriptIds : scripts'[id].requested => scripts'[id].loaded]_vars

C3_Witness ==
    /\ settled = 1
    /\ scripts[StartupScript].loaded
    /\ scripts["s1"].loaded
    /\ scripts["s1"].epoch = 0

\* C4: once load() has issued the startup import, scriptsPending equals the
\* number of distinct script ids requested and not yet loaded.
C4_PendingEqualsOutstanding ==
    (phase = "run" /\ DoImports) => scriptsPending = Cardinality(Outstanding)

\* C5: a timeout leaves the pending counter alone, and as long as a script
\* that timed out has not loaded the resources do not settle; when it was
\* requested before the first settling (three requests, two loaded, one timed
\* out) main() is not invoked either.
C5_TimeoutNeverSettles ==
    /\ [](\A id \in ScriptIds :
            (scripts[id].timedOut /\ ~scripts[id].loaded) =>
                /\ settled = scripts[id].epoch
                /\ (scripts[id].epoch = 0 => mainCalls = 0))
    /\ [][\A id \in ScriptIds :
            (scripts'[id].timedOut /\ ~scripts[id].timedOut) =>
                /\ scriptsPending' = scriptsPending
                /\ settled' = settled
                /\ mainCalls' = mainCalls]_vars

C5_Witness ==
    /\ Cardinality(Requested) = 3
    /\ Cardinality(Outstanding) = 1
    /\ \E id \in Outstanding : scripts[id].timedOut
    /\ scriptsPending = 1
    /\ settled = 0
    /\ mainCalls = 0

\* C6: cycligent.import of an id that was already requested creates no new
\* Script, leaves scriptsPending and scriptsCount unchanged, and every
\* requested id gets exactly one load completion in total.
C6_ImportIdempotent ==
    /\ [][(lastOp'.op = "import" /\ scripts[lastOp'.arg[1]].requested) =>
            UNCHANGED <<scriptsPending, scriptsCount, scripts>>]_vars
    /\ [](\A id \in ScriptIds :
            scripts[id].requested =>
                scripts[id].inflight + (IF scripts[id].loaded THEN 1 ELSE 0) = 1)

C6_Witness ==
    /\ lastOp.op = "import"
    /\ lastOp.arg = <<"s1">>
    /\ scripts["s1"].loaded
    /\ scriptsCount = 2
    /\ calls = 2

\* C7: main() is invoked only with scriptsReady, domReady and pageReady all
\* true, whatever the order of the settle, DOM-ready and page-load events.
C7_MainOnlyWhenAllReady == mainGate

C7_Witness ==
    /\ mainCalls = 1
    /\ cfg.waitDom
    /\ cfg.waitPage
    /\ domEvent = "fired"
    /\ pageEvent = "fired"
    /\ lastOp.op = "event"
    /\ settled = 1

\* C8: when main() throws and the exception boundary catches it, the finished
\* flag is set afterwards and every registered observer is notified.
C8_FinishedAfterCaughtFailure ==
    [][(lastOp'.mainThrew /\ ~lastOp'.threw) =>
          /\ appLoadFinished'
          /\ lastOp'.called = notifyFunctions']_vars

GateTrip ==
    /\ scriptsReady' /\ domReady' /\ pageReady'
    /\ \/ settled' > settled
       \/ domEvent = "armed" /\ domEvent' = "fired"
       \/ pageEvent = "armed" /\ pageEvent' = "fired"
       \/ phase = "boot" /\ cfg.test = "noimports"

C10_DeferredClassResolved ==
    /\ [][(/\ lastOp'.op = "class" /\ lastOp'.arg = nC
           /\ interfaces[nI] = "true" /\ classes[nB] # "true") =>
             /\ classes'[nC] = "false"
             /\ classesToProcess' = Append(classesToProcess, ClassC)
             /\ tree'[nC] = tree[nC]]_vars
    /\ [][(/\ lastOp'.op = "class" /\ lastOp'.arg = nB
           /\ interfaces[nI] = "true" /\ classes[nB] = "undef"
           /\ classes[nC] = "false" /\ classesToProcess = <<ClassC>>) =>
             /\ classes'[nB] = "true" /\ tree'[nB] = "class"
             /\ classes'[nC] = "true" /\ tree'[nC] = "class"
             /\ classesToProcess' = <<>>
             /\ ~lastOp'.threw]_vars

C10_Witness ==
    /\ lastOp.op = "class"
    /\ lastOp.arg = nB
    /\ calls = 3
    /\ interfaces[nI] = "true"
    /\ classes[nC] = "true"
    /\ tree[nC] = "class"
    /\ classesToProcess = <<>>

(***************************************************************************)
(* Properties of the registries.                                           *)
(***************************************************************************)
\* the callback is the load event of a script
ScriptLoadStep == \E id \in ScriptIds : ~scripts[id].loaded /\ scripts'[id].loaded

\* every dependency of a registered record is itself a registered record:
\* a define for each ancestor namespace, the extended class or interface,
\* the implemented interfaces
DepsRegistered(d) ==
    /\ \A i \in 1..(Len(d.name) - 1) :
          \E e \in registered : e.kind = "define" /\ e.name = Prefix(d.name, i)
    /\ IF d.kind = "define" THEN TRUE
       ELSE d.extends # Undefined =>
                \E e \in registered : e.kind = d.kind /\ e.name = d.extends
    /\ IF d.kind # "class" THEN TRUE
       ELSE \A i \in 1..Len(d.implements) :
                \E e \in registered : e.kind = "interface" /\ e.name = d.implements[i]

\* the record is Resolved
IsResolved(d) ==
    CASE d.kind = "class" -> classes[d.name] = "true"
      [] d.kind = "interface" -> interfaces[d.name] = "true"
      [] OTHER -> tree[d.name] # "undef"

\* the records waiting in a deferred queue
PendingIn(q) == {q[i] : i \in {j \in 1..Len(q) : q[j] # Null}}

PendingRecords ==
    PendingIn(classesToProcess) \cup PendingIn(interfacesToProcess)
        \cup PendingIn(definitionsToProcess)

\* C11: when the dependencies of the pending records (an acyclic graph) have
\* all been registered, the resolution passes run by a script-load completion
\* terminate and leave every one of these records Resolved.
C11_PassesResolveAll ==
    [][(ScriptLoadStep /\ \A d \in PendingRecords : DepsRegistered(d)) =>
          \A d \in PendingRecords : IsResolved(d)']_vars

\* the state in which cycligent.boot() reaches cycligent.appLoad.load(), as
\* the record the handlers work on
Fresh ==
    [tree |-> [p \in Paths |-> "undef"], classes |-> [p \in Paths |-> "undef"],
     interfaces |-> [p \in Paths |-> "undef"], classesToProcess |-> <<>>,
     interfacesToProcess |-> <<>>, definitionsToProcess |-> <<>>,
     priorityDefinitions |-> <<>>, scriptsPending |-> 1, scriptsCount |-> 0,
     scripts |-> [id \in ScriptIds |-> NoScript], scriptsReady |-> FALSE,
     domReady |-> FALSE, pageReady |-> FALSE, appLoadFinished |-> FALSE,
     notifyFunctions |-> <<>>, scaffoldingReady |-> FALSE, domEvent |-> "none",
     pageEvent |-> "none", errors |-> {}, mainCalls |-> 0, settled |-> 0,
     notified |-> [f \in Observers |-> 0], mainGate |-> TRUE, mainThrew |-> FALSE,
     called |-> <<>>, ran |-> <<>>, tripped |-> FALSE, resolved |-> <<>>, round |-> 0,
     roundCount |-> 0, factories |-> <<>>, depth |-> 0, overflow |-> FALSE,
     regCount |-> [d \in Tracked |-> 0], runCount |-> [d \in Tracked |-> 0],
     holder |-> [p \in Paths |-> Null], exc |-> FALSE]

\* one fixed order of the declarations and of the scripts
RegOrder ==
    <<DefineNs, DefineNsObject, DefineSub, DefineSubX, InterfaceI, InterfaceJ,
      InterfaceL, ClassB, ClassC, ClassE, ClassK, ClassM>>

ScriptOrder == <<"s1", "s2", StartupScript>>

Register(s, d) ==
    CASE d.kind = "class" -> class(s, d)
      [] d.kind = "interface" -> interface(s, d)
      [] OTHER -> define(s, d)

\* each registration is a call of its own: an exception ends that call only
RECURSIVE RegisterAll(_, _)
RegisterAll(s, q) ==
    IF q = <<>> THEN s
    ELSE RegisterAll([Register(s, Head(q)) EXCEPT !.exc = FALSE], Tail(q))

RECURSIVE ImportAll(_, _)
ImportAll(s, q) ==
    IF q = <<>> THEN s ELSE ImportAll(Import(s, Head(q)), Tail(q))

RECURSIVE LoadAll(_, _)
LoadAll(s, q) ==
    IF q = <<>> THEN s ELSE LoadAll(scriptScriptLoaded(s, Head(q), FALSE), Tail(q))

\* the run that requests the scripts ids, registers the records R in the
\* fixed order while every script is still loading, and then completes the
\* loads in the fixed order
Canon(R, ids) ==
    LET q == SelectSeq(ScriptOrder, LAMBDA id : id \in ids)
    IN  LoadAll(RegisterAll(ImportAll(load(Fresh, FALSE), q),
                            SelectSeq(RegOrder, LAMBDA d : d \in R)),
                q)

\* C12: for a fixed set of scripts and of records, every order of the
\* registrations and of the script-load completions ends, once the resources
\* have settled and finalization has run, with the same namespace tree and
\* the same set of Resolved records (here: the same as the fixed order does).
C12_OrderInvariance ==
    [][(settled = 0 /\ settled' = 1 /\ ~lastOp'.threw) =>
          LET c == Canon(registered', Requested')
          IN  (c.settled = 1 /\ ~c.exc) =>
                  /\ tree' = c.tree
                  /\ \A p \in Paths : (classes'[p] = "true") = (c.classes[p] = "true")
                  /\ \A p \in Paths :
                        (interfaces'[p] = "true") = (c.interfaces[p] = "true")]_vars

\* C13: a class or interface becomes Resolved (its flag in cycligent.classes
\* or cycligent.interfaces set to true, its value written into the tree) only
\* in a state where every ancestor namespace of its name is present in the
\* tree, its extends target is Resolved (flag true, value in the tree) and,
\* for a class, every implemented interface is Resolved.
C13_ResolvedOnlyWithDependencies ==
    [][/\ \A d \in RegClassDecls :
            (classes[d.name] # "true" /\ classes'[d.name] = "true") =>
                /\ tree'[d.name] = "class"
                /\ \A i \in 1..(Len(d.name) - 1) : tree'[Prefix(d.name, i)] # "undef"
                /\ d.extends # Undefined =>
                      classes'[d.extends] = "true" /\ tree'[d.extends] = "class"
                /\ \A i \in 1..Len(d.implements) :
                      /\ interfaces'[d.implements[i]] = "true"
                      /\ tree'[d.implements[i]] = "interface"
       /\ \A d \in RegInterfaceDecls :
            (interfaces[d.name] # "true" /\ interfaces'[d.name] = "true") =>
                /\ tree'[d.name] = "interface"
                /\ \A i \in 1..(Len(d.name) - 1) : tree'[Prefix(d.name, i)] # "undef"
                /\ d.extends # Undefined =>
                      interfaces'[d.extends] = "true" /\ tree'[d.extends] = "interface"]_vars

\* C14: once a record is Resolved (flag true, or a definition's value present
\* at its path) no later step makes it Pending again or removes its value
\* from the tree.
C14_ResolvedIsMonotonic ==
    [][\A p \in Paths :
          /\ classes[p] = "true" => classes'[p] = "true"
          /\ interfaces[p] = "true" => interfaces'[p] = "true"
          /\ tree[p] \in {"class", "interface", "value"} => tree'[p] # "undef"]_vars

\* C15: when the resources settle, after the force-placeholder step every
\* segment of the path of every definition still in definitionsToProcess,
\* the name itself included, holds a value in the tree.
C15_PlaceholdersComplete ==
    [][(settled' > settled /\ ~lastOp'.threw) =>
          \A i \in 1..Len(definitionsToProcess) :
              \A k \in 1..Len(definitionsToProcess[i].name) :
                  tree'[Prefix(definitionsToProcess[i].name, k)] # "undef"]_vars

\* C16: in every run of cycligent.define.execute the priority definitions
\* are executed in ascending priority: of two definitions in
\* priorityDefinitions with priorities p < q, the one with q is executed only
\* after the one with p.
C16_PriorityOrder ==
    [][LET ran == lastOp'.ran
       IN  /\ \A i, j \in 1..Len(ran) : i < j => ran[i].priority <= ran[j].priority
           /\ \A j \in 1..Len(ran) :
                 \A k \in 1..Len(priorityDefinitions') :
                     priorityDefinitions'[k].priority < ran[j].priority =>
                         \E i \in 1..(j - 1) : ran[i] = priorityDefinitions'[k]]_vars

C16_Witness ==
    /\ Len(lastOp.ran) = 3
    /\ lastOp.ran[1] = PrioritySub
    /\ lastOp.ran[2] = PriorityNs
    /\ lastOp.ran[3] = PrioritySubX

\* C17: a definition registered with a non-zero priority is not executed by
\* its registration or by a resolution pass: it is executed only by a callback
\* in which the resources settle, and when main() is invoked every priority
\* definition registered so far has been executed.
C17_PriorityOnlyAtFinalization ==
    [][/\ lastOp'.ran # <<>> => (lastOp'.op = "event" /\ settled' = settled + 1)
       /\ mainCalls' > mainCalls =>
             \A d \in registered' : (d.kind = "define" /\ d.priority # 0) =>
                 d \in executed']_vars

\* C18: whatever classesToProcess and interfacesToProcess hold when the
\* readiness gate trips, the diagnostics of _executeMain only report: the
\* callback ends without an exception escaping from them, every record still
\* in the queues is reported, and main() is invoked.
C18_DiagnosticsObservational ==
    [][(lastOp'.tripped /\ ~appLoadFinished) =>
          /\ mainCalls' = mainCalls + 1
          /\ \A d \in PendingIn(classesToProcess') :
                \E e \in errors' : e[1] = "class failed" /\ e[2] = d.name
          /\ \A d \in PendingIn(interfacesToProcess') :
                \E e \in errors' : e[1] = "interface failed" /\ e[2] = d.name]_vars

\* C19: when the loaded config.js lacks the loader section or the
\* loader.roots section, the error is reported and the boot stops: no boot
\* library is loaded, cycligent.boot is never called, no script is requested
\* and main() is never invoked.
C19_InvalidLoaderHaltsBoot ==
    (cfg.test = "none" /\ cfg.loader \in {"noLoader", "noRoots"}) =>
        /\ phase \in {"config", "halted"}
        /\ libIndex = 0
        /\ Requested = {}
        /\ scriptsCount = 0
        /\ mainCalls = 0
        /\ phase = "halted" =>
              \/ cfg.loader = "noLoader" /\ <<"loader section missing">> \in errors
              \/ cfg.loader = "noRoots" /\ <<"roots section missing">> \in errors

C19_Witness ==
    /\ cfg.loader = "noRoots"
    /\ phase = "halted"
    /\ <<"roots section missing">> \in errors
    /\ mainCalls = 0

\* C20: in test mode with doImports false cycligent.import creates no Script
\* request and leaves scriptsPending, scriptsCount and the scripts table
\* unchanged, and the startup script is never requested.
C20_ImportNoOpWithoutImports ==
    /\ [][(cfg.test = "noimports" /\ lastOp'.op = "import") =>
            UNCHANGED <<scriptsPending, scriptsCount, scripts>>]_vars
    /\ [](cfg.test = "noimports" =>
            /\ Requested = {}
            /\ \A id \in ScriptIds : scripts[id].inflight = 0)

C20_Witness ==
    /\ cfg.test = "noimports"
    /\ phase = "run"
    /\ scaffoldingReady
    /\ lastOp.op = "import"
    /\ lastOp.arg = <<StartupScript>>
    /\ calls = 2

\* C21: with cycligent.test defined main() is never invoked;
\* cycligent.test.scaffoldingReady is false until the finalizer runs, which
\* happens in a callback that found the three readiness flags true and has
\* executed every priority definition, and it is true from then on.
C21_TestModeScaffolding ==
    /\ [](cfg.test # "none" => mainCalls = 0)
    /\ [][cfg.test # "none" =>
            /\ scaffoldingReady => scaffoldingReady'
            /\ (~scaffoldingReady /\ scaffoldingReady') =>
                  /\ lastOp'.tripped
                  /\ scriptsReady' /\ domReady' /\ pageReady'
                  /\ appLoadFinished'
                  /\ lastOp'.ran = priorityDefinitions']_vars

C21_Witness ==
    /\ cfg.test = "imports"
    /\ scaffoldingReady
    /\ settled = 1
    /\ Len(lastOp.ran) = 2
    /\ mainCalls = 0

\* the non-null entries of the three deferred queues whose dependencies, as
\* classMissing, interfaceMissing and definitionMissing compute them, are met
Resolvable ==
    {d \in PendingIn(classesToProcess) : classMissing(Cur, d).missing = Undefined}
        \cup {d \in PendingIn(interfacesToProcess) :
                  interfaceMissing(Cur, d).missing = Undefined}
        \cup {d \in PendingIn(definitionsToProcess) :
                  definitionMissing(Cur, d) = Undefined}

\* C22: when a call of cycligent.class, cycligent.interface or
\* cycligent.define returns, no deferred queue holds a record whose
\* dependencies are all satisfied.
C22_QuiescentAfterRegistration ==
    [][(lastOp'.op \in {"class", "interface", "define"} /\ ~lastOp'.threw) =>
          Resolvable' = {}]_vars

\* C23: when the completion callback of a script load returns, no deferred
\* class, interface or definition whose dependencies are all satisfied is
\* still queued.
C23_QuiescentAfterScriptLoad ==
    [][(ScriptLoadStep /\ ~lastOp'.threw) => Resolvable' = {}]_vars

\* C24: after every callback each deferred queue holds only records that are
\* still Pending: no null slot, no class or interface flagged Resolved, no
\* definition whose name holds a value in the tree.
C24_QueuesHoldPendingOnly ==
    [][/\ \A i \in 1..Len(classesToProcess') :
            classesToProcess'[i] # Null /\ classes'[classesToProcess'[i].name] # "true"
       /\ \A i \in 1..Len(interfacesToProcess') :
            /\ interfacesToProcess'[i] # Null
            /\ interfaces'[interfacesToProcess'[i].name] # "true"
       /\ \A i \in 1..Len(definitionsToProcess') :
            /\ definitionsToProcess'[i] # Null
            /\ tree'[definitionsToProcess'[i].name] = "undef"]_vars

\* C25: a deferred interface whose ancestor namespaces and extends interface
\* are present is resolved by the resolution pass of the next script-load
\* completion: it is in the tree, flagged true and out of interfacesToProcess.
C25_DeferredInterfaceResolved ==
    [][ScriptLoadStep =>
          \A d \in PendingIn(interfacesToProcess) :
              interfaceMissing(Cur, d).missing = Undefined =>
                  /\ interfaces'[d.name] = "true"
                  /\ tree'[d.name] = "interface"
                  /\ d \notin PendingIn(interfacesToProcess')]_vars

\* C26: cycligent.interface for an interface whose extends target is a
\* Resolved interface returns normally with the interface stored in the tree
\* and cycligent.interfaces[name] true.
C26_ExtendingInterfaceResolved ==
    [][\A d \in RegInterfaceDecls :
          (/\ lastOp'.op = "interface" /\ lastOp'.arg = d.name
           /\ d.extends # Undefined
           /\ interfaceMissing(Cur, d).missing = Undefined
           /\ tree[d.extends] = "interface") =>
              /\ ~lastOp'.threw
              /\ interfaces'[d.name] = "true"
              /\ tree'[d.name] = "interface"]_vars

\* C28: the force-placeholder step and the execution of the priority
\* definitions happen only in a callback that trips the gate, with
\* scriptsReady, domReady and pageReady all true.
C28_FinalizerOnlyOnGateTrip ==
    [][(lastOp'.ran # <<>> \/ (settled' > settled /\ definitionsToProcess # <<>>)) =>
          scriptsReady' /\ domReady' /\ pageReady']_vars

\* a class of the dependency catalogue that extends a class extending it
InCycle(d) ==
    \E e \in DepClassDecls : d.extends = e.name /\ e.extends = d.name

\* the extends / implements targets of a class that no registered
\* declaration names
TargetsMissing(d, reg) ==
    {n \in ({d.extends} \cup {d.implements[i] : i \in 1..Len(d.implements)}) \ {Undefined} :
        \A e \in reg : e.name # n}

\* C30: a queued class that is part of an extends cycle, or has an extends /
\* implements target that no script has registered, is not resolved by any
\* callback and stays in classesToProcess; when the readiness gate trips it
\* is reported with its first unmet dependency and main() is invoked
C30_StuckClassesReportedMainRuns ==
    [][\A d \in PendingIn(classesToProcess) :
          (InCycle(d) \/ TargetsMissing(d, registered') # {}) =>
             /\ classes'[d.name] # "true"
             /\ d \in PendingIn(classesToProcess')
             /\ (lastOp'.tripped /\ ~appLoadFinished) =>
                   /\ <<"class failed", d.name, classMissing(Cur, d).missing>> \in errors'
                   /\ mainCalls' = mainCalls + 1]_vars
\* a is b with some of its entries left out
RECURSIVE IsSubseq(_, _)
IsSubseq(a, b) ==
    IF a = <<>> THEN TRUE
    ELSE IF b = <<>> THEN FALSE
    ELSE IF Head(a) = Head(b) THEN IsSubseq(Tail(a), Tail(b))
    ELSE IsSubseq(a, Tail(b))

\* the entries one round of a deferred pass took out of a queue, in the
\* order in which it processed them
RECURSIVE RoundArgs(_, _)
RoundArgs(res, r) ==
    IF res = <<>> THEN <<>>
    ELSE IF Head(res).round = r THEN <<Head(res).args>> \o RoundArgs(Tail(res), r)
    ELSE RoundArgs(Tail(res), r)

\* the entries of a queue that are not null
NonNull(q) == SelectSeq(q, LAMBDA e : e # Null)

\* the queue a record of this kind is deferred in
QueueOf(kind) == IF kind = "class" THEN classesToProcess ELSE definitionsToProcess

\* the classes of the class queue that are resolvable, in queue order
ResolvableClasses ==
    SelectSeq(NonNull(classesToProcess),
              LAMBDA e : classMissing(Cur, e).missing = Undefined)

Count(q, x) == Cardinality({i \in 1..Len(q) : q[i] = x})

\* the records a callback took out of a deferred queue
ResolvedArgs(res) == [i \in 1..Len(res) |-> res[i].args]

\* C27: with factories that call cycligent.define while they run, a callback
\* ends without exhausting the call stack, takes each record of the
\* definition queue out of it at most once, and a definition registered
\* directly has its factory run exactly once
C27_ReentrantRegistration ==
    [][/\ ~lastOp'.overflow
       /\ \A d \in FacDefineDecls :
             /\ Count(ResolvedArgs(lastOp'.resolved), d) <= Count(definitionsToProcess, d)
             /\ (d.definition = "functionDefines" /\ lastOp'.op = "define"
                    /\ lastOp'.arg = d.name /\ definitionMissing(Cur, d) = Undefined) =>
                   Count(lastOp'.factories, d.name) = 1]_vars

Registered == {notifyFunctions[i] : i \in 1..Len(notifyFunctions)}

\* C31: the observer list never holds a function twice; notify(f) leaves f
\* in the list, leaves the list as it is when f was in it already and adds
\* f at its end otherwise; after notifyClear(f) f is not in the list and the
\* other functions are
C31_ObserverListDeduplicated ==
    /\ [](\A i, j \in 1..Len(notifyFunctions) :
             notifyFunctions[i] = notifyFunctions[j] => i = j)
    /\ [][\A f \in Observers :
             /\ (lastOp'.op = "notify" /\ lastOp'.arg = <<f>>) =>
                   /\ f \in Registered'
                   /\ f \in Registered => notifyFunctions' = notifyFunctions
                   /\ f \notin Registered => notifyFunctions' = Append(notifyFunctions, f)
             /\ (lastOp'.op = "notifyClear" /\ lastOp'.arg = <<f>>) =>
                   /\ f \notin Registered'
                   /\ Registered' = Registered \ {f}]_vars

\* notify(f) has just returned with f in front of g in the list: g was
\* added by an earlier call behind f, so f was registered already
C31_Witness ==
    /\ lastOp.op = "notify" /\ lastOp.arg = <<"f">>
    /\ notifyFunctions = <<"f", "g">>
\* the class d is processed by this step: registered with nothing missing,
\* or taken out of the class queue
Processed(d) ==
    \/ lastOp'.op = "class" /\ lastOp'.arg = d.name /\ classMissing(Cur, d).missing = Undefined
    \/ \E i \in 1..Len(lastOp'.resolved) : lastOp'.resolved[i].args = d

\* what holds of a class that has been processed like any other: its own
\* cycligent.class call ends without an exception, the class is at its name
\* in the tree and its flag is true (classProcess sets the flag last, so
\* nothing in it threw).  A script callback that took the class out of the
\* queue may still end with the exception of its diagnostic loop, which is
\* not raised by the processing of the class
ResolvedLikeAnyOther(d) ==
    /\ (lastOp'.op = "class" /\ lastOp'.arg = d.name) => ~lastOp'.threw
    /\ classes'[d.name] = "true"
    /\ tree'[d.name] = "class"

\* C32 as stated: a class whose first name segment does not begin with an
\* uppercase letter has the error logged when it is processed, and is
\* resolved without an exception
C32_LeadingSegmentChecked ==
    [][\A d \in NameClassDecls :
          (Processed(d) /\ d.name[1] \in LowerSegments) =>
             /\ <<"uppercase", d.name>> \in errors'
             /\ ResolvedLikeAnyOther(d)]_vars

\* C32 amended: it is the last name segment that is tested.  A class whose
\* last segment does not begin with an uppercase letter has the error
\* logged when it is processed, the error is logged for no other class, and
\* every processed class is resolved, its processing raising no exception
C32_LastSegmentChecked ==
    [][\A d \in NameClassDecls :
          /\ Processed(d) =>
                /\ ResolvedLikeAnyOther(d)
                /\ d.name[Len(d.name)] \in LowerSegments => <<"uppercase", d.name>> \in errors'
          /\ <<"uppercase", d.name>> \in errors' => d.name[Len(d.name)] \in LowerSegments]_vars

\* the class B.x has been registered and resolved with the error logged
C32_Witness ==
    /\ lastOp.op = "class" /\ lastOp.arg = nBx /\ ~lastOp.threw
    /\ classes[nBx] = "true" /\ tree[nBx] = "class"
    /\ <<"uppercase", nBx>> \in errors
\* the definitions of the factory catalogue that have a factory
FactoryDecls == {d \in FacDefineDecls : d.definition \in {"function", "functionDefines"}}

\* C33: the factory of a definition without priority has run at most as
\* often as the definition has been passed to cycligent.define: once for
\* each registration
C33_FactoryAtMostOnce ==
    \A d \in FactoryDecls : runCount[d] <= regCount[d]
\* the definitions of the priority catalogue that have a priority and a
\* factory
PriorityFactoryDecls ==
    {d \in PrioDefineDecls : d.priority # 0 /\ d.definition = "function"}

\* C34: the factory of a priority definition has run at most as often as
\* the definition has been passed to cycligent.define, however often the
\* scripts settle
C34_PriorityFactoryAtMostOnce ==
    \A d \in PriorityFactoryDecls : runCount[d] <= regCount[d]
\* the path name and the paths beneath it
Subtree(name) == {p \in Paths : p = name \/ IsStrictPrefix(name, p)}

\* C35: cycligent.define(name) without a payload, called for a path that
\* holds a value, leaves the path and every path beneath it as they are:
\* the same kind of value, and the same object
C35_BareDefineKeepsSubtree ==
    [][\A d \in ValDefineDecls :
          (/\ d.definition = "none"
           /\ lastOp'.op = "define" /\ lastOp'.arg = d.name
           /\ tree[d.name] # "undef") =>
             \A p \in Subtree(d.name) : tree'[p] = tree[p] /\ holder'[p] = holder[p]]_vars
\* C36: outside test mode appLoadFinished, which cycligent.appLoad.finished()
\* returns, is true only when main() has been invoked, and it becomes true
\* only in a callback in which main() was invoked and did not throw
C36_FinishedOnlyAfterMainReturned ==
    /\ [](cfg.test = "none" /\ appLoadFinished => mainCalls >= 1)
    /\ [][(cfg.test = "none" /\ ~appLoadFinished /\ appLoadFinished') =>
            /\ mainCalls' = mainCalls + 1
            /\ ~lastOp'.mainThrew]_vars

\* main() threw at the first trip of the gate and returned at the second:
\* finished() is true after two invocations
C36_Witness ==
    /\ cfg.test = "none"
    /\ appLoadFinished
    /\ mainCalls = 2
    /\ lastOp.tripped /\ ~lastOp.mainThrew
\* C37: once the load completion of a script has been handled its timer is
\* cleared; "Script Import Failed" is reported only for a script that has not
\* loaded, and at most once for each request
C37_NoTimeoutAfterLoad ==
    /\ [](\A id \in ScriptIds :
            /\ scripts[id].loaded => scripts[id].timers = 0
            /\ scripts[id].reports <= 1)
    /\ [][\A id \in ScriptIds :
            scripts'[id].reports > scripts[id].reports =>
                /\ ~scripts[id].loaded
                /\ ~scripts'[id].loaded
                /\ scripts'[id].timers = 0]_vars

\* one script loaded with its timer cleared and no report, while another
\* request was reported once and its script has not loaded
C37_Witness ==
    \E a, b \in ScriptIds :
        /\ scripts[a].loaded /\ scripts[a].timers = 0 /\ scripts[a].reports = 0
        /\ scripts[b].requested /\ ~scripts[b].loaded
        /\ scripts[b].reports = 1 /\ scripts[b].timers = 0
\* C38: a call of asyncEnd or idle made while n >= 1 asynchronous processes
\* are begun and not ended records an "Idle" event exactly when it ends the
\* last of them (n = 1); an earlier one leaves the timeline as it is
C38_IdleAtLastEnd ==
    [][(/\ timing'.calls = timing.calls + 1
        /\ timing'.op \in {"asyncEnd", "idle"}
        /\ timing.open >= 1) =>
           /\ timing.open = 1 <=>
                 /\ timing'.idleEvents = timing.idleEvents + 1
                 /\ timing'.events # <<>>
                 /\ timing'.events[Len(timing'.events)].title = "Idle"
           /\ timing.open > 1 =>
                 /\ timing'.events = timing.events
                 /\ timing'.idleEvents = timing.idleEvents]_vars

\* three asyncBegin calls, then three asyncEnd / idle calls: the timeline
\* holds one "Idle" event, after the three events of the beginnings
C38_Witness ==
    /\ timing.calls = 6
    /\ timing.op \in {"asyncEnd", "idle"}
    /\ timing.open = 0
    /\ timing.idleEvents = 1
    /\ [i \in 1..Len(timing.events) |-> timing.events[i].title]
          = <<"Async", "Async", "Async", "Idle">>
\* the last n elements of the sequence q
LastOf(q, n) == SubSeq(q, Len(q) - n + 1, Len(q))

\* C39: cycligent.console.messages never holds more than 100 entries: it
\* holds the most recent min(n, 100) of the n messages stored since it was
\* last cleared, in the order they were stored
C39_Last100InOrder ==
    LET n == Len(console.logged)
    IN  /\ Len(console.messages) <= 100
        /\ console.messages = LastOf(console.logged, IF n < 100 THEN n ELSE 100)

\* 102 messages were logged and the first two are gone: the list starts
\* with the third and ends with the last
C39_Witness ==
    /\ Len(console.logged) = 102
    /\ console.calls = 102
    /\ Len(console.messages) = 100
    /\ console.messages[1].message = 3
    /\ console.messages[100].message = 102
====
